---- MODULE Spec2Model ----
(***************************************************************************)
(* Model of the PMC full-text extraction core of                           *)
(* LLMs_ClinicalRiskModel_Tool (main_extraction.py): the section           *)
(* classifier, the normalizer, the chunker, the two-transport fetcher and  *)
(* the three-strategy extraction chain of PMCScraperV2.                    *)
(*                                                                         *)
(* Text is a sequence of symbols.  A symbol is either one character (a     *)
(* string of length one) or a run symbol such as "q*480", which stands     *)
(* for 480 consecutive letters q.  The letter q occurs in no pattern of    *)
(* the program, so no literal of a pattern can match inside a run and a    *)
(* run behaves under every pattern as one wide letter.  Len() of Python    *)
(* is the sum of the symbol widths (StrLen).                               *)
(***************************************************************************)
EXTENDS Integers, Sequences, FiniteSets, TLC

(***************************************************************************)
(* Characters and strings                                                  *)
(***************************************************************************)
RunWidth ==
  ("q*30" :> 30) @@ ("q*60" :> 60) @@ ("q*480" :> 480) @@ ("q*1001" :> 1001)

Width(c) == IF c \in DOMAIN RunWidth THEN RunWidth[c] ELSE 1

\* len(s): the sum of the widths of the symbols of s
RECURSIVE StrLen(_)
StrLen(s) ==
  IF s = <<>> THEN 0
  ELSE IF Len(s) = 1 THEN Width(s[1])
  ELSE LET h == Len(s) \div 2
       IN StrLen(SubSeq(s, 1, h)) + StrLen(SubSeq(s, h + 1, Len(s)))

UPPER ==
  <<"A", "B", "C", "D", "E", "F", "G", "H", "I", "J", "K", "L", "M",
    "N", "O", "P", "Q", "R", "S", "T", "U", "V", "W", "X", "Y", "Z">>

LOWER ==
  <<"a", "b", "c", "d", "e", "f", "g", "h", "i", "j", "k", "l", "m",
    "n", "o", "p", "q", "r", "s", "t", "u", "v", "w", "x", "y", "z">>

DIGITS == {"0", "1", "2", "3", "4", "5", "6", "7", "8", "9"}

IsUpper(c) == \E k \in 1..26 : UPPER[k] = c
IsLower(c) == (\E k \in 1..26 : LOWER[k] = c) \/ c \in DOMAIN RunWidth
IsAlpha(c) == IsUpper(c) \/ IsLower(c)
IsDigit(c) == c \in DIGITS
IsSpace(c) == c \in {" ", "\n", "\t", "\r"}
IsWordChar(c) == IsAlpha(c) \/ IsDigit(c) \/ c = "_"

lower_char(c) == IF IsUpper(c) THEN LOWER[CHOOSE k \in 1..26 : UPPER[k] = c] ELSE c
upper_char(c) ==
  IF \E k \in 1..26 : LOWER[k] = c THEN UPPER[CHOOSE k \in 1..26 : LOWER[k] = c] ELSE c

lower(s) == [k \in 1..Len(s) |-> lower_char(s[k])]
upper(s) == [k \in 1..Len(s) |-> upper_char(s[k])]

RECURSIVE lstrip(_)
lstrip(s) == IF s # <<>> /\ IsSpace(Head(s)) THEN lstrip(Tail(s)) ELSE s

RECURSIVE rstrip(_)
rstrip(s) ==
  IF s # <<>> /\ IsSpace(s[Len(s)]) THEN rstrip(SubSeq(s, 1, Len(s) - 1)) ELSE s

strip(s) == rstrip(lstrip(s))

startswith(s, p) == Len(s) >= Len(p) /\ SubSeq(s, 1, Len(p)) = p

\* str.split(): the maximal runs of non-whitespace symbols, in order
RECURSIVE split(_)
split(s) ==
  LET t == lstrip(s)
      n == IF \E k \in 1..Len(t) : IsSpace(t[k])
           THEN (CHOOSE k \in 1..Len(t) :
                   IsSpace(t[k]) /\ \A j \in 1..(k - 1) : ~IsSpace(t[j])) - 1
           ELSE Len(t)
  IN IF t = <<>> THEN <<>>
     ELSE <<SubSeq(t, 1, n)>> \o split(SubSeq(t, n + 1, Len(t)))

\* sep.join(parts)
RECURSIVE join(_, _)
join(sep, parts) ==
  IF parts = <<>> THEN <<>>
  ELSE IF Len(parts) = 1 THEN parts[1]
  ELSE parts[1] \o sep \o join(sep, Tail(parts))

(***************************************************************************)
(* Regular expressions of the re module, as far as the program uses them.  *)
(* A pattern is written as its syntax tree (Lit, Str, Cls, Cat, Alt, Rep,  *)
(* Bol for ^, Eol for $, Wb for \b), compiled to a program of a            *)
(* backtracking matcher.  Run is that matcher: it tries greedy             *)
(* repetitions longest first and alternatives left to right and returns    *)
(* the end of the first match it finds, which is the match re reports.     *)
(***************************************************************************)
Lit(c) == [t |-> "lit", c |-> c]
Cls(k) == [t |-> "cls", k |-> k]
Str(cs) == [t |-> "str", cs |-> cs]
Cat(rs) == [t |-> "cat", rs |-> rs]
Alt(rs) == [t |-> "alt", rs |-> rs]
Rep(r, lo, hi) == [t |-> "rep", r |-> r, lo |-> lo, hi |-> hi]
Bol == [t |-> "bol"]
Eol == [t |-> "eol"]
Wb == [t |-> "wb"]

InClass(k, c) ==
  CASE k = "s" -> IsSpace(c)
    [] k = "S" -> ~IsSpace(c)
    [] k = "d" -> IsDigit(c)
    [] k = "[A-Za-z0-9._%+-]" -> IsAlpha(c) \/ IsDigit(c) \/ c \in {".", "_", "%", "+", "-"}
    [] k = "[A-Za-z0-9.-]" -> IsAlpha(c) \/ IsDigit(c) \/ c \in {".", "-"}
    [] k = "[A-Z|a-z]" -> IsAlpha(c) \/ c = "|"

WordAt(s, i) == i >= 1 /\ i <= Len(s) /\ IsWordChar(s[i])

SameChar(a, b, ic) == IF ic THEN lower_char(a) = lower_char(b) ELSE a = b

Least(S) == CHOOSE x \in S : \A y \in S : x <= y

\* concatenation of a sequence of sequences
RECURSIVE Flatten(_)
Flatten(ss) ==
  IF ss = <<>> THEN <<>>
  ELSE IF Len(ss) = 1 THEN ss[1]
  ELSE LET h == Len(ss) \div 2
       IN Flatten(SubSeq(ss, 1, h)) \o Flatten(SubSeq(ss, h + 1, Len(ss)))

\* instructions; the targets x and y of split and jmp are relative to the
\* instruction itself
ISym(r) == [op |-> "sym", r |-> r]
IStr(cs) == [op |-> "str", cs |-> cs]
IRun(r, lo, hi) == [op |-> "run", r |-> r, lo |-> lo, hi |-> hi]
ISplit(x, y) == [op |-> "split", x |-> x, y |-> y]
IJmp(x) == [op |-> "jmp", x |-> x]
IAt(t) == [op |-> t]
IMatch == [op |-> "match"]

\* The program's patterns repeat one-symbol patterns (x*, x+, x?, x{2,}) and
\* make groups optional ((...)?); nothing else is repeated.
RECURSIVE Compile(_)
RECURSIVE CompileAlt(_, _)

Compile(r) ==
  CASE r.t \in {"lit", "cls"} -> <<ISym(r)>>
    [] r.t = "str" -> <<IStr(r.cs)>>
    [] r.t \in {"bol", "eol", "wb"} -> <<IAt(r.t)>>
    [] r.t = "cat" -> Flatten([k \in 1..Len(r.rs) |-> Compile(r.rs[k])])
    [] r.t = "alt" -> CompileAlt(r.rs, 1)
    [] r.t = "rep" /\ r.r.t \in {"lit", "cls"} -> <<IRun(r.r, r.lo, r.hi)>>
    [] r.t = "rep" /\ r.r.t \notin {"lit", "cls"} /\ r.lo = 0 /\ r.hi = 1 ->
         <<ISplit(1, Len(Compile(r.r)) + 1)>> \o Compile(r.r)

\* rs[k] | rs[k+1] | ...
CompileAlt(rs, k) ==
  IF k = Len(rs) THEN Compile(rs[k])
  ELSE <<ISplit(1, Len(Compile(rs[k])) + 2)>> \o Compile(rs[k])
       \o <<IJmp(Len(CompileAlt(rs, k + 1)) + 1)>> \o CompileAlt(rs, k + 1)

Program(r) == Compile(r) \o <<IMatch>>

Programs(rs) == [k \in 1..Len(rs) |-> Program(rs[k])]

\* a one-symbol pattern (a literal or a class) matches the symbol c
SymMatch(r, c, ic) == IF r.t = "lit" THEN SameChar(c, r.c, ic) ELSE InClass(r.k, c)

\* the positions at which a greedy repetition r{lo,hi} of a one-symbol pattern
\* that starts at i can end, the longest run first (hi = -1: unbounded). A class
\* repeated over a run symbol counts as Width repetitions.
RunEnds(in, s, i, ic) ==
  LET bad == {j \in i..Len(s) : ~SymMatch(in.r, s[j], ic)}
      m == IF bad = {} THEN Len(s) - i + 1 ELSE Least(bad) - i
      n(e) == IF in.r.t = "cls" THEN StrLen(SubSeq(s, i, e - 1)) ELSE e - i
      ok(e) == n(e) >= in.lo /\ (in.hi = -1 \/ n(e) <= in.hi)
  IN SelectSeq([k \in 1..(m + 1) |-> i + m - (k - 1)], ok)

\* Run(prog, pc, s, i, ic): the end of the first match found by running prog
\* from instruction pc at position i of s, 0 when there is none
RECURSIVE Run(_, _, _, _, _)
RECURSIVE RunFrom(_, _, _, _, _)
Run(prog, pc, s, i, ic) ==
  CASE prog[pc].op = "match" -> i
    [] prog[pc].op = "sym" ->
         IF i <= Len(s) /\ SymMatch(prog[pc].r, s[i], ic)
         THEN Run(prog, pc + 1, s, i + 1, ic) ELSE 0
    [] prog[pc].op = "str" ->
         IF i + Len(prog[pc].cs) - 1 <= Len(s)
            /\ \A k \in 1..Len(prog[pc].cs) : SameChar(s[i + k - 1], prog[pc].cs[k], ic)
         THEN Run(prog, pc + 1, s, i + Len(prog[pc].cs), ic) ELSE 0
    [] prog[pc].op = "bol" -> IF i = 1 THEN Run(prog, pc + 1, s, i, ic) ELSE 0
    [] prog[pc].op = "eol" ->
         IF i = Len(s) + 1 \/ (i = Len(s) /\ s[i] = "\n")
         THEN Run(prog, pc + 1, s, i, ic) ELSE 0
    [] prog[pc].op = "wb" ->
         IF WordAt(s, i - 1) # WordAt(s, i) THEN Run(prog, pc + 1, s, i, ic) ELSE 0
    [] prog[pc].op = "jmp" -> Run(prog, pc + prog[pc].x, s, i, ic)
    [] prog[pc].op = "split" ->
         IF Run(prog, pc + prog[pc].x, s, i, ic) # 0
         THEN Run(prog, pc + prog[pc].x, s, i, ic)
         ELSE Run(prog, pc + prog[pc].y, s, i, ic)
    [] prog[pc].op = "run" -> RunFrom(prog, pc + 1, s, RunEnds(prog[pc], s, i, ic), ic)

\* the first match found by running prog from instruction pc at the
\* positions es, tried in order
RunFrom(prog, pc, s, es, ic) ==
  IF \A k \in 1..Len(es) : Run(prog, pc, s, es[k], ic) = 0 THEN 0
  ELSE Run(prog, pc, s, es[Least({k \in 1..Len(es) : Run(prog, pc, s, es[k], ic) # 0})], ic)

\* re.match(pattern, s): a match that starts at the first position
re_match(prog, s, ic) == Run(prog, 1, s, 1, ic) # 0

\* re.search(pattern, s) from position i: the leftmost position at which a
\* match starts, 0 when there is none
re_search(prog, s, i, ic) ==
  IF \E j \in i..(Len(s) + 1) : Run(prog, 1, s, j, ic) # 0
  THEN Least({j \in i..(Len(s) + 1) : Run(prog, 1, s, j, ic) # 0})
  ELSE 0

\* a replacement template: the text of the group that opens the match (g is
\* <<>> or <<the group's program>>) followed by literal text
Repl(g, lit) == [g |-> g, lit |-> lit]

Expand(repl, s, i, ic) ==
  (IF repl.g = <<>> THEN <<>>
   ELSE SubSeq(s, i, Run(repl.g[1], 1, s, i, ic) - 1)) \o repl.lit

\* re.sub(pattern, repl, s): the non-overlapping matches, leftmost first, are
\* replaced (no pattern of the program matches the empty string); j is the
\* start of the first match at or after position i
RECURSIVE re_sub_from(_, _, _, _, _, _)
re_sub_from(prog, repl, s, i, ic, j) ==
  IF j = 0 \/ j > Len(s) THEN SubSeq(s, i, Len(s))
  ELSE SubSeq(s, i, j - 1) \o Expand(repl, s, j, ic)
       \o re_sub_from(prog, repl, s, Run(prog, 1, s, j, ic), ic,
                      re_search(prog, s, Run(prog, 1, s, j, ic), ic))

re_sub(prog, repl, s, ic) == re_sub_from(prog, repl, s, 1, ic, re_search(prog, s, 1, ic))

(***************************************************************************)
(* Pattern tables and section classifier                                   *)
(***************************************************************************)
EXCLUDE_SECTION_PATTERNS ==
  Programs(
  << Cat(<<Bol, Str(<<"r", "e", "f", "e", "r", "e", "n", "c", "e">>),
      Rep(Lit("s"), 0, 1), Eol>>),
     Cat(<<Bol, Str(<<"b", "i", "b", "l", "i", "o", "g", "r", "a", "p", "h", "y">>),
         Eol>>),
     Cat(<<Bol, Str(<<"a", "c", "k", "n", "o", "w", "l", "e", "d", "g">>),
         Rep(Lit("m"), 0, 1), Str(<<"e", "n", "t">>), Rep(Lit("s"), 0, 1),
         Eol>>),
     Cat(<<Bol, Str(<<"a", "c", "k", "n", "o", "w", "l", "e", "d">>),
         Rep(Lit("g"), 0, 1), Str(<<"m", "e", "n", "t">>), Rep(Lit("s"),
         0, 1), Eol>>),
     Cat(<<Bol, Str(<<"a", "u", "t", "h", "o", "r">>), Rep(Cls("s"), 0, -1),
         Str(<<"c", "o", "n", "t", "r", "i", "b", "u", "t", "i", "o", "n">>),
         Rep(Lit("s"), 0, 1), Eol>>),
     Cat(<<Bol, Str(<<"a", "u", "t", "h", "o", "r">>), Rep(Lit("s"), 0, 1),
         Rep(Cls("s"), 0, -1),
         Str(<<"c", "o", "n", "t", "r", "i", "b", "u", "t", "i", "o", "n">>),
         Rep(Lit("s"), 0, 1), Eol>>),
     Cat(<<Bol, Str(<<"c", "o", "n", "t", "r", "i", "b", "u", "t", "o", "r">>),
         Rep(Lit("s"), 0, 1), Eol>>),
     Cat(<<Bol, Str(<<"c", "o", "n", "t", "r", "i", "b", "u", "t", "o", "r">>),
         Rep(Cls("s"), 0, -1),
         Str(<<"i", "n", "f", "o", "r", "m", "a", "t", "i", "o", "n">>),
         Eol>>),
     Cat(<<Bol, Str(<<"c", "o", "n", "f", "l", "i", "c", "t">>), Rep(Lit("s"),
         0, 1), Rep(Cls("s"), 0, -1), Str(<<"o", "f">>), Rep(Cls("s"), 0, -1),
         Str(<<"i", "n", "t", "e", "r", "e", "s", "t">>), Rep(Lit("s"), 0, 1),
         Eol>>),
     Cat(<<Bol, Str(<<"c", "o", "m", "p", "e", "t", "i", "n", "g">>),
         Rep(Cls("s"), 0, -1),
         Str(<<"i", "n", "t", "e", "r", "e", "s", "t">>), Rep(Lit("s"), 0, 1),
         Eol>>),
     Cat(<<Bol, Str(<<"d", "e", "c", "l", "a", "r", "a", "t", "i", "o", "n">>),
         Rep(Lit("s"), 0, 1), Eol>>),
     Cat(<<Bol, Str(<<"d", "i", "s", "c", "l", "o", "s", "u", "r", "e">>),
         Eol>>),
     Cat(<<Bol, Str(<<"f", "u", "n", "d", "i", "n", "g">>), Eol>>),
     Cat(<<Bol, Str(<<"f", "u", "n", "d", "i", "n", "g">>), Rep(Cls("s"),
         0, -1), Rep(Alt(<<Cat(<<Str(<<"s", "o", "u", "r", "c", "e">>),
         Rep(Lit("s"), 0, 1)>>),
         Str(<<"i", "n", "f", "o", "r", "m", "a", "t", "i", "o", "n">>)>>),
         0, 1), Eol>>),
     Cat(<<Bol, Str(<<"f", "i", "n", "a", "n", "c", "i", "a", "l">>),
         Rep(Cls("s"), 0, -1),
         Str(<<"d", "i", "s", "c", "l", "o", "s", "u", "r", "e">>), Eol>>),
     Cat(<<Bol, Str(<<"s", "u", "p", "p", "l", "e", "m", "e", "n", "t", "a", "r", "y">>),
         Rep(Cls("s"), 0, -1),
         Rep(Alt(<<Cat(<<Str(<<"m", "a", "t", "e", "r", "i", "a", "l">>),
         Rep(Lit("s"), 0, 1)>>), Str(<<"d", "a", "t", "a">>),
         Str(<<"i", "n", "f", "o", "r", "m", "a", "t", "i", "o", "n">>)>>),
         0, 1), Eol>>),
     Cat(<<Bol, Str(<<"s", "u", "p", "p", "o", "r", "t", "i", "n", "g">>),
         Rep(Cls("s"), 0, -1),
         Str(<<"i", "n", "f", "o", "r", "m", "a", "t", "i", "o", "n">>),
         Eol>>),
     Cat(<<Bol, Str(<<"a", "p", "p", "e", "n", "d", "i">>), Alt(<<Lit("x"),
         Str(<<"c", "e", "s">>)>>), Eol>>),
     Cat(<<Bol, Str(<<"d", "a", "t", "a">>), Rep(Cls("s"), 0, -1),
         Str(<<"a", "v", "a", "i", "l", "a", "b", "i", "l", "i", "t", "y">>)>>),
     Cat(<<Bol, Str(<<"e", "t", "h", "i", "c", "s">>), Rep(Cls("s"), 0, -1),
         Rep(Alt(<<Str(<<"s", "t", "a", "t", "e", "m", "e", "n", "t">>),
         Str(<<"a", "p", "p", "r", "o", "v", "a", "l">>)>>), 0, 1), Eol>>),
     Cat(<<Bol, Str(<<"e", "t", "h", "i", "c", "a", "l">>), Rep(Cls("s"),
         0, -1), Str(<<"a", "p", "p", "r", "o", "v", "a", "l">>), Eol>>),
     Cat(<<Bol, Str(<<"f", "o", "o", "t", "n", "o", "t", "e">>), Rep(Lit("s"),
         0, 1), Eol>>),
     Cat(<<Bol, Str(<<"a", "b", "b", "r", "e", "v", "i", "a", "t", "i", "o", "n">>),
         Rep(Lit("s"), 0, 1), Eol>>),
     Cat(<<Bol, Str(<<"a", "s", "s", "o", "c", "i", "a", "t", "e", "d">>),
         Rep(Cls("s"), 0, -1), Str(<<"d", "a", "t", "a">>), Eol>>) >>)

MAIN_CONTENT_PATTERNS ==
  Programs(
  << Cat(<<Bol, Str(<<"a", "b", "s", "t", "r", "a", "c", "t">>), Eol>>),
     Cat(<<Bol, Str(<<"h", "i", "g", "h", "l", "i", "g", "h", "t">>),
         Rep(Lit("s"), 0, 1), Eol>>),
     Cat(<<Bol, Str(<<"b", "a", "c", "k", "g", "r", "o", "u", "n", "d">>),
         Eol>>),
     Cat(<<Bol, Str(<<"i", "n", "t", "r", "o", "d", "u", "c", "t", "i", "o", "n">>),
         Eol>>),
     Cat(<<Bol, Str(<<"m", "e", "t", "h", "o", "d">>), Rep(Lit("s"), 0, 1),
         Eol>>),
     Cat(<<Bol, Str(<<"m", "a", "t", "e", "r", "i", "a", "l">>), Rep(Lit("s"),
         0, 1), Rep(Cls("s"), 0, -1), Alt(<<Str(<<"a", "n", "d">>),
         Lit("&")>>), Rep(Cls("s"), 0, -1),
         Str(<<"m", "e", "t", "h", "o", "d">>), Rep(Lit("s"), 0, 1), Eol>>),
     Cat(<<Bol, Str(<<"p", "a", "t", "i", "e", "n", "t">>), Rep(Lit("s"),
         0, 1), Rep(Cls("s"), 0, -1), Alt(<<Str(<<"a", "n", "d">>),
         Lit("&")>>), Rep(Cls("s"), 0, -1),
         Str(<<"m", "e", "t", "h", "o", "d">>), Rep(Lit("s"), 0, 1), Eol>>),
     Cat(<<Bol, Str(<<"s", "t", "u", "d", "y">>), Rep(Cls("s"), 0, -1),
         Str(<<"d", "e", "s", "i", "g", "n">>), Eol>>),
     Cat(<<Bol, Str(<<"r", "e", "s", "u", "l", "t">>), Rep(Lit("s"), 0, 1),
         Eol>>),
     Cat(<<Bol, Str(<<"f", "i", "n", "d", "i", "n", "g">>), Rep(Lit("s"),
         0, 1), Eol>>),
     Cat(<<Bol, Str(<<"d", "i", "s", "c", "u", "s", "s", "i", "o", "n">>),
         Eol>>),
     Cat(<<Bol, Str(<<"c", "o", "n", "c", "l", "u", "s", "i", "o", "n">>),
         Rep(Lit("s"), 0, 1), Eol>>),
     Cat(<<Bol, Str(<<"s", "u", "m", "m", "a", "r", "y">>), Eol>>) >>)

matches_any(patterns, s) ==
  \E k \in 1..Len(patterns) : re_match(patterns[k], s, TRUE)

\* the classifier without lower() and without re.IGNORECASE
is_exclude_section_cased(title) ==
  IF title = <<>> THEN FALSE
  ELSE \E k \in 1..Len(EXCLUDE_SECTION_PATTERNS) :
         re_match(EXCLUDE_SECTION_PATTERNS[k], strip(title), FALSE)

is_exclude_section(title) ==
  IF title = <<>> THEN FALSE
  ELSE matches_any(EXCLUDE_SECTION_PATTERNS, lower(strip(title)))

is_main_content_section(title) ==
  IF title = <<>> THEN FALSE
  ELSE matches_any(MAIN_CONTENT_PATTERNS, lower(strip(title)))

(***************************************************************************)
(* Normalizer                                                              *)
(***************************************************************************)
RE_ORCID ==
  Program(
  Cat(<<Str(<<"O", "R", "C", "I", "D">>), Rep(Cls("s"), 0, -1),
      Rep(Str(<<"I", "D">>), 0, 1), Rep(Cls("s"), 0, -1), Lit(":"),
      Rep(Cls("s"), 0, -1), Rep(Cls("S"), 1, -1)>>))

RE_ORCID_URL ==
  Program(
  Cat(<<Str(<<"h", "t", "t", "p">>), Rep(Lit("s"), 0, 1),
      Str(<<":", "/", "/", "o", "r", "c", "i", "d", ".", "o", "r", "g", "/">>),
      Rep(Cls("S"), 1, -1)>>))

RE_EMAIL ==
  Program(
  Cat(<<Wb, Rep(Cls("[A-Za-z0-9._%+-]"), 1, -1), Lit("@"),
      Rep(Cls("[A-Za-z0-9.-]"), 1, -1), Lit("."), Rep(Cls("[A-Z|a-z]"),
      2, -1), Wb>>))

RE_CAPTION ==
  Program(
  Cat(<<Alt(<<Str(<<"F", "i", "g", "u", "r", "e">>),
      Str(<<"T", "a", "b", "l", "e">>)>>), Rep(Cls("s"), 0, -1), Rep(Cls("d"),
      1, -1), Rep(Lit("."), 0, 1), Rep(Cls("s"), 0, -1),
      Rep(Str(<<"O", "p", "e", "n", " ", "i", "n", " ", "a", " ", "n", "e", "w", " ", "t", "a", "b">>),
      0, 1)>>))

RE_CAPTION_G1 ==
  Program(
  Alt(<<Str(<<"F", "i", "g", "u", "r", "e">>),
      Str(<<"T", "a", "b", "l", "e">>)>>))

RE_WS ==
  Program(
  Rep(Cls("s"), 1, -1))

RE_BLANK ==
  Program(
  Cat(<<Lit("\n"), Rep(Cls("s"), 0, -1), Lit("\n")>>))

\* the normalizer without its final text.strip()
clean_text_v2_unstripped(text) ==
  IF text = <<>> THEN <<>>
  ELSE re_sub(RE_BLANK, Repl(<<>>, <<"\n", "\n">>),
         re_sub(RE_WS, Repl(<<>>, <<" ">>),
           re_sub(RE_CAPTION, Repl(<<RE_CAPTION_G1>>, <<" ">>),
             re_sub(RE_EMAIL, Repl(<<>>, <<>>),
               re_sub(RE_ORCID_URL, Repl(<<>>, <<>>),
                 re_sub(RE_ORCID, Repl(<<>>, <<>>), text, TRUE),
                 FALSE),
               FALSE),
             TRUE),
           FALSE),
         FALSE)

\* the six substitutions of clean_text_v2 in the order of the code, innermost
\* first, then text.strip()
clean_text_v2(text) ==
  IF text = <<>> THEN <<>>
  ELSE strip(
         re_sub(RE_BLANK, Repl(<<>>, <<"\n", "\n">>),
           re_sub(RE_WS, Repl(<<>>, <<" ">>),
             re_sub(RE_CAPTION, Repl(<<RE_CAPTION_G1>>, <<" ">>),
               re_sub(RE_EMAIL, Repl(<<>>, <<>>),
                 re_sub(RE_ORCID_URL, Repl(<<>>, <<>>),
                   re_sub(RE_ORCID, Repl(<<>>, <<>>), text, TRUE),
                   FALSE),
                 FALSE),
               TRUE),
             FALSE),
           FALSE))

(***************************************************************************)
(* Chunker                                                                 *)
(***************************************************************************)
DefaultChunkSizeWords == 4000
DefaultOverlapWords == 1000

Min(a, b) == IF a <= b THEN a ELSE b

\* the while loop of chunk_text_v2, entered with the given start
RECURSIVE chunk_loop(_, _, _, _)
chunk_loop(words, start, chunk_size_words, overlap_words) ==
  IF ~(start < Len(words)) THEN <<>>
  ELSE LET end == Min(start + chunk_size_words, Len(words))
           chunk == join(<<" ">>, SubSeq(words, start + 1, end))
       IN IF end = Len(words) THEN <<chunk>>
          ELSE <<chunk>> \o chunk_loop(words, start + (chunk_size_words - overlap_words),
                                       chunk_size_words, overlap_words)

chunk_text_v2(text, chunk_size_words, overlap_words) ==
  LET words == split(text)
  IN IF Len(words) <= chunk_size_words THEN <<text>>
     ELSE chunk_loop(words, 0, chunk_size_words, overlap_words)

(***************************************************************************)
(* Optional values: None and a present value                               *)
(***************************************************************************)
None == <<>>
Some(x) == <<x>>
IsSome(o) == o # <<>>
Get(o) == o[1]

(***************************************************************************)
(* Parsed markup.  A document is an outer element that may hold an inner   *)
(* container; children are the elements directly inside the innermost of   *)
(* the two.  A child is a section (with an optional heading of level hl    *)
(* in 2..4, hl = 0 when it has none, followed by one paragraph), a bare    *)
(* heading h1..h4, a paragraph, or a non-content element.                  *)
(***************************************************************************)
Section(hl, title, body) == [tag |-> "section", hl |-> hl, title |-> title, body |-> body]
Heading(tag, title) == [tag |-> tag, hl |-> 0, title |-> title, body |-> <<>>]
Elem(tag, body) == [tag |-> tag, hl |-> 0, title |-> <<>>, body |-> body]

HeadingTags == {"h1", "h2", "h3", "h4"}
NonContentTags == {"script", "style", "nav", "footer", "header", "aside"}

\* the text strings below a node, in document order
NodeStrings(n) ==
  IF n.tag = "section" THEN (IF n.hl # 0 THEN <<n.title>> ELSE <<>>) \o <<n.body>>
  ELSE IF n.tag \in HeadingTags THEN <<n.title>>
  ELSE <<n.body>>

NonEmpty(x) == x # <<>>

\* get_text(separator=' ', strip=True) over the given strings
get_text_sep(strings) ==
  join(<<" ">>, SelectSeq([k \in 1..Len(strings) |-> strip(strings[k])], NonEmpty))

\* get_text(strip=True) over the given strings
get_text_strip(strings) ==
  Flatten([k \in 1..Len(strings) |-> strip(strings[k])])

NodeText(n) == get_text_sep(NodeStrings(n))

(***************************************************************************)
(* Strategy 1: extract_method1_main_body                                   *)
(***************************************************************************)
NOTE_NO_MAIN_BODY == <<"main-article-body not found">>
NOTE_FALLBACK == <<"[Fallback mode]">>

NoiseFloor == 50

\* soup.find('section', class_='main-article-body') or
\* soup.find('div', class_='article-content') or soup.find('article', class_='article')
find_main_body(soup) ==
  IF soup.inner = "section.main-article-body" THEN "inner"
  ELSE IF soup.inner = "div.article-content" THEN "inner"
  ELSE IF soup.outer = "article.article" THEN "outer"
  ELSE "none"

\* the elements directly below the outer element / the inner container
ChildrenOf(soup, which) ==
  IF which = "outer" /\ soup.inner # "none" THEN <<>> ELSE soup.children

IsSectionNode(n) == n.tag = "section"

\* the loop with continue in place of break: an excluded section is skipped
\* and the sections after it are still collected
RECURSIVE method1_loop_continue(_, _, _, _)
method1_loop_continue(sections, k, content_parts, sections_found) ==
  IF k > Len(sections) THEN [parts |-> content_parts, sections |-> sections_found]
  ELSE IF sections[k].hl # 0 /\ is_exclude_section(get_text_strip(<<sections[k].title>>))
  THEN method1_loop_continue(sections, k + 1, content_parts, sections_found)
  ELSE method1_loop_continue(sections, k + 1,
         IF StrLen(NodeText(sections[k])) > NoiseFloor
         THEN Append(content_parts, NodeText(sections[k])) ELSE content_parts,
         IF StrLen(NodeText(sections[k])) > NoiseFloor /\ sections[k].hl # 0
         THEN Append(sections_found, get_text_strip(<<sections[k].title>>))
         ELSE sections_found)

RECURSIVE method1_loop(_, _, _, _)
method1_loop(sections, k, content_parts, sections_found) ==
  IF k > Len(sections) THEN [parts |-> content_parts, sections |-> sections_found]
  ELSE LET section == sections[k]
           section_title == IF section.hl # 0 THEN get_text_strip(<<section.title>>) ELSE <<>>
           section_text == NodeText(section)
           keep == section_text # <<>> /\ StrLen(section_text) > NoiseFloor
       IN IF section_title # <<>> /\ is_exclude_section(section_title)
          THEN [parts |-> content_parts, sections |-> sections_found]
          ELSE method1_loop(sections, k + 1,
                 IF keep THEN Append(content_parts, section_text) ELSE content_parts,
                 IF keep /\ section_title # <<>> THEN Append(sections_found, section_title)
                 ELSE sections_found)

\* lines 398 to 402: what the strategy returns after its loop collected r
method1_result(r) ==
  IF r.parts # <<>> THEN [text |-> Some(join(<<" ">>, r.parts)), sections |-> r.sections]
  ELSE [text |-> None, sections |-> r.sections]

extract_method1_main_body(soup) ==
  IF find_main_body(soup) = "none" THEN [text |-> None, sections |-> <<NOTE_NO_MAIN_BODY>>]
  ELSE method1_result(
         method1_loop(SelectSeq(ChildrenOf(soup, find_main_body(soup)), IsSectionNode),
                      1, <<>>, <<>>))

(***************************************************************************)
(* Strategy 2: extract_method2_heading                                     *)
(***************************************************************************)
\* soup.find_all(['h2', 'h3']): the indices of the children that are, or that
\* open with, a heading of level 2 or 3, in document order
IsH23(n) == n.tag \in {"h2", "h3"} \/ (n.tag = "section" /\ n.hl \in {2, 3})

\* the while loop over heading.find_next_sibling(): the texts of the elements
\* after position k up to the next h2/h3 element
RECURSIVE sibling_content(_, _)
sibling_content(children, k) ==
  IF k > Len(children) \/ children[k].tag \in {"h2", "h3"} THEN <<>>
  ELSE LET text == NodeText(children[k])
       IN (IF text # <<>> THEN <<text>> ELSE <<>>) \o sibling_content(children, k + 1)

\* the content collected for the heading of child k
heading_content(children, k) ==
  IF children[k].tag = "section"
  THEN (IF strip(children[k].body) # <<>> THEN <<strip(children[k].body)>> ELSE <<>>)
  ELSE sibling_content(children, k + 1)

RECURSIVE method2_loop(_, _, _, _, _)
method2_loop(children, k, start_found, content_parts, sections_found) ==
  IF k > Len(children) THEN [parts |-> content_parts, sections |-> sections_found]
  ELSE IF ~IsH23(children[k])
  THEN method2_loop(children, k + 1, start_found, content_parts, sections_found)
  ELSE LET heading_text == get_text_strip(<<children[k].title>>)
           started == start_found \/ is_main_content_section(heading_text)
           content == heading_content(children, k)
       IN IF is_exclude_section(heading_text)
          THEN [parts |-> content_parts, sections |-> sections_found]
          ELSE method2_loop(children, k + 1, started,
                 IF started /\ content # <<>>
                 THEN Append(content_parts, heading_text \o <<"\n">> \o join(<<" ">>, content))
                 ELSE content_parts,
                 IF started THEN Append(sections_found, heading_text) ELSE sections_found)

\* lines 435 to 439: what the strategy returns after its loop collected r
method2_result(r) ==
  IF r.parts # <<>>
  THEN [text |-> Some(join(<<"\n", "\n">>, r.parts)), sections |-> r.sections]
  ELSE [text |-> None, sections |-> r.sections]

extract_method2_heading(soup) ==
  method2_result(method2_loop(soup.children, 1, FALSE, <<>>, <<>>))

(***************************************************************************)
(* Strategy 3: extract_method3_fallback                                    *)
(***************************************************************************)
RE_REFERENCES ==
  Program(
  Cat(<<Wb, Str(<<"R", "e", "f", "e", "r", "e", "n", "c", "e", "s">>), Wb>>))

RE_BIBLIOGRAPHY ==
  Program(
  Cat(<<Wb, Str(<<"B", "i", "b", "l", "i", "o", "g", "r", "a", "p", "h", "y">>), Wb>>))

RE_FOOTNOTES ==
  Program(
  Cat(<<Wb, Str(<<"F", "o", "o", "t", "n", "o", "t", "e", "s">>), Wb>>))

MARKER_PATTERNS == <<RE_REFERENCES, RE_BIBLIOGRAPHY, RE_FOOTNOTES>>

FallbackGate == 500

\* soup.find('article') or soup.find('div', class_='article-content') or
\* soup.find('div', id=re.compile(r'article|content', re.I)) or soup.find('main')
find_article(soup) ==
  soup.outer \in {"article", "article.article", "div#content", "main"}
  \/ soup.inner = "div.article-content"

IsContentNode(n) == n.tag \notin NonContentTags

\* a heading h1..h4 of the article whose text is an excluded title
IsExcludedHeading(n) ==
  /\ n.tag \in HeadingTags \/ (n.tag = "section" /\ n.hl # 0)
  /\ is_exclude_section(get_text_strip(<<n.title>>))

\* the first excluded heading is removed together with the siblings that follow it
cut_at_excluded_heading(children) ==
  LET hits == {k \in 1..Len(children) : IsExcludedHeading(children[k])}
      k == Least(hits)
  IN IF hits = {} THEN children
     ELSE IF children[k].tag = "section"
     THEN [children EXCEPT ![k] = Section(0, <<>>, <<>>)]
     ELSE SubSeq(children, 1, k - 1)

\* the for loop over the marker patterns: the first pattern, in table order,
\* that occurs anywhere in the text cuts the text at its first occurrence
RECURSIVE truncate_at_marker(_, _)
truncate_at_marker(text, k) ==
  IF k > Len(MARKER_PATTERNS) THEN text
  ELSE LET start == re_search(MARKER_PATTERNS[k], text, 1, TRUE)
       IN IF start # 0 THEN SubSeq(text, 1, start - 1)
          ELSE truncate_at_marker(text, k + 1)

\* article.get_text(separator=' ', strip=True) over the elements kept
article_text(kept) ==
  get_text_sep(Flatten([k \in 1..Len(kept) |-> NodeStrings(kept[k])]))

\* line 471: return (text.strip(), ...) if len(text) > 500 else (None, ...)
method3_result(text) ==
  IF StrLen(text) > FallbackGate THEN [text |-> Some(strip(text)), sections |-> <<NOTE_FALLBACK>>]
  ELSE [text |-> None, sections |-> <<NOTE_FALLBACK>>]

extract_method3_fallback(soup) ==
  IF ~find_article(soup) THEN [text |-> None, sections |-> <<NOTE_FALLBACK>>]
  ELSE method3_result(
         truncate_at_marker(
           article_text(cut_at_excluded_heading(SelectSeq(soup.children, IsContentNode))), 1))

(***************************************************************************)
(* Outcome record (ExtractionStatus, ExtractionResult) and messages.       *)
(* A message is a text whose symbols are whole words.                      *)
(***************************************************************************)
SUCCESS == "success"
PARTIAL == "partial"
FAILED == "failed"
NO_PMCID == "no_pmcid"
ExtractionStatus == {SUCCESS, PARTIAL, FAILED, NO_PMCID}

METHOD1 == "method1_main_body"
METHOD2 == "method2_heading"
METHOD3 == "method3_fallback"

ExtractionResult(pmcid, status, full_text, full_text_chunks, error_message, method_used, sections_found, char_count, word_count) ==
  [pmcid |-> pmcid, status |-> status, full_text |-> full_text,
   full_text_chunks |-> full_text_chunks, error_message |-> error_message,
   method_used |-> method_used, sections_found |-> sections_found,
   char_count |-> char_count, word_count |-> word_count]

\* ExtractionResult(pmcid=, status=, error_message=): the other fields default
FailureResult(pmcid, status, error_message) ==
  ExtractionResult(pmcid, status, None, None, Some(error_message), None, None, 0, 0)

\* the result built after a strategy met its gate
CleanResult(pmcid, status, clean, method_used, sections) ==
  ExtractionResult(pmcid, status, Some(clean),
    Some(chunk_text_v2(clean, DefaultChunkSizeWords, DefaultOverlapWords)),
    None, Some(method_used), Some(sections), StrLen(clean), Len(split(clean)))

TextResult(pmcid, status, text, method_used, sections) ==
  CleanResult(pmcid, status, clean_text_v2(text), method_used, sections)

MSG_EMPTY == <<"PMCID", " ", "is", " ", "empty">>
MSG_NOT_FOUND_code(pmcid) == <<"HTTP", " ", "error", " ", "404:", " ">> \o pmcid
MSG_NOT_FOUND(pmcid) == <<"Article", " ", "not", " ", "found", " ", "(404):", " ">> \o pmcid
MSG_SELENIUM(e) == <<"Selenium", " ", "failed:", " ">> \o e
MSG_UNABLE == <<"Unable", " ", "to", " ", "fetch", " ", "page", " ", "content">>
MSG_UNABLE_HTML == <<"Unable", " ", "to", " ", "fetch", " ", "HTML">>
MSG_ALL_FAILED ==
  <<"All", " ", "extraction", " ", "methods", " ", "failed,", " ", "page", " ", "structure", " ", "may", " ", "be", " ", "non-standard">>
MSG_EXCEPTION_bare(e) == e
MSG_EXCEPTION(e) == <<"Exception:", " ">> \o e \o <<"\n", "Traceback">>

(***************************************************************************)
(* Inputs                                                                  *)
(***************************************************************************)
MaxCalls == 2
MaxChildren == 2

PMC == <<"P", "M", "C">>

PMCIDS == {<<>>, <<" ">>, <<"p", "m", "c", "7">>, <<" ", "7", " ">>}

\* texts of exceptions
ERRORS == {<<>>, <<"boom">>}

B_LONG == <<"q*1001">>
B_MID == <<"q*480", " ", "q*30">>
B_SHORT == <<"q*30">>
B_ORCID == <<"O", "R", "C", "I", "D", ":", " ", "q*1001">>
B_MARKED ==
  <<"q*480", " ", "q*30", " ", "r", "e", "f", "e", "r", "e", "n", "c", "e", "s", " ", "q*480">>

ChildPool ==
  { Section(2, <<"I", "n", "t", "r", "o", "d", "u", "c", "t", "i", "o", "n">>, B_LONG),
    Section(3, <<"R", "E", "F", "E", "R", "E", "N", "C", "E", "S">>, B_LONG),
    Section(0, <<>>, B_ORCID),
    Section(4, <<"R", "e", "s", "u", "l", "t", "s">>, B_SHORT),
    Heading("h2", <<"A", "b", "s", "t", "r", "a", "c", "t">>),
    Heading("h3", <<"F", "u", "n", "d", "i", "n", "g">>),
    Elem("p", B_MID),
    Elem("p", B_MARKED),
    Elem("nav", B_LONG) }

ChildSeqs == UNION {[1..n -> ChildPool] : n \in 0..MaxChildren}

Containers ==
  { <<"article", "section.main-article-body">>,
    <<"div", "div.article-content">>,
    <<"article.article", "none">>,
    <<"article.article", "div">>,
    <<"main", "none">>,
    <<"div#content", "div">>,
    <<"div", "none">> }

Docs == {[outer |-> c[1], inner |-> c[2], children |-> cs] : c \in Containers, cs \in ChildSeqs}

EmptyDoc == [outer |-> "div", inner |-> "none", children |-> <<>>]

\* len(response.text) / len(html) must exceed PageGate
PageGate == 10000
StrategyGate == 1000

Page(size, doc) == [size |-> size, doc |-> doc]

\* pages the transports can deliver: an undersized page, and pages with a document
Pages == {Page(PageGate, EmptyDoc)} \cup {Page(PageGate + 1, d) : d \in Docs}

\* what the Selenium transport can deliver once the wait for an element of
\* class main-article-body is over (line 356): a page that holds one
SeleniumPages ==
  {Page(PageGate, EmptyDoc)}
  \cup {Page(PageGate + 1, d) : d \in {x \in Docs : x.inner = "section.main-article-body"}}

\* how requests.get / raise_for_status can end
PrimaryResponses ==
  {[kind |-> "ok", page |-> p, code |-> 200, e |-> <<>>] : p \in Pages}
  \cup {[kind |-> "Timeout", page |-> Page(0, EmptyDoc), code |-> 0, e |-> <<>>]}
  \cup {[kind |-> "HTTPError", page |-> Page(0, EmptyDoc), code |-> c, e |-> <<>>] : c \in {404, 500}}
  \cup {[kind |-> "RequestException", page |-> Page(0, EmptyDoc), code |-> 0, e |-> <<"boom">>]}
  \cup {[kind |-> "Exception", page |-> Page(0, EmptyDoc), code |-> 0, e |-> e] : e \in ERRORS}

\* how the Selenium block can end
SeleniumResponses ==
  {[kind |-> "ok", page |-> p, e |-> <<>>] : p \in SeleniumPages}
  \cup {[kind |-> k, page |-> Page(0, EmptyDoc), e |-> e] :
          k \in {"setup_driver raises", "get raises", "wait raises"}, e \in ERRORS}

(***************************************************************************)
(* State                                                                   *)
(***************************************************************************)
VARIABLES
  use_selenium,  \* self.use_selenium
  driver,        \* self.driver: 0 for None, else the id of a browser session
  browsers,      \* ids of the browser sessions started and not quit
  started,       \* number of browser sessions started so far
  calls,         \* number of extract_full_text calls made so far
  pc,            \* position of the current call
  arg,           \* the identifier the current call was made with
  pmcid,         \* the pmcid variable of extract_full_text
  fetched,       \* what fetch_html returned: None, or Some([html, error])
  soup,          \* the parsed markup: None, or Some(document)
  candidates,    \* the values the strategies returned for text so far, in order
  outcome,       \* what extract_full_text returned: None, or Some(ExtractionResult)
  log,           \* the calls made during the current call and how a request ended
  fn,            \* the function a caller applied directly, "none" before it did
  input,         \* the title, text or arguments it was applied to
  output,        \* what it returned
  frame          \* the local variables of a call in progress, None when there is none

vars ==
  <<use_selenium, driver, browsers, started, calls, pc, arg, pmcid, fetched, soup,
    candidates, outcome, log, fn, input, output, frame>>

\* the variables of a direct call of a function
direct == <<fn, input, output, frame>>

Init ==
  /\ use_selenium \in BOOLEAN
  /\ driver = 0
  /\ browsers = {}
  /\ started = 0
  /\ calls = 0
  /\ pc = "idle"
  /\ arg = <<>>
  /\ pmcid = <<>>
  /\ fetched = None
  /\ soup = None
  /\ candidates = <<>>
  /\ outcome = None
  /\ log = <<>>
  /\ fn = "none"
  /\ input = <<>>
  /\ output = <<>>
  /\ frame = None

\* return from extract_full_text
ReturnResult(r) ==
  /\ outcome' = Some(r)
  /\ pc' = "returned"

FetchResult(html, error) == [html |-> html, error |-> error]

\* lines 490 to 496: fetch_html returned (html, error)
AfterFetch(html, error) ==
  /\ fetched' = Some(FetchResult(html, error))
  /\ IF ~IsSome(html)
     THEN ReturnResult(FailureResult(pmcid, FAILED,
            IF IsSome(error) /\ Get(error) # <<>> THEN Get(error) ELSE MSG_UNABLE_HTML))
     ELSE pc' = "parse" /\ UNCHANGED outcome

\* the exception leaves extract_full_text: the call ends without an outcome
Caught_propagates(e) == pc' = "idle" /\ UNCHANGED outcome

\* lines 557 to 563: an exception inside the try block
Caught(e) == ReturnResult(FailureResult(pmcid, FAILED, MSG_EXCEPTION(e)))

(***************************************************************************)
(* extract_full_text, lines 475 to 490: the empty identifier, identifier   *)
(* normalization, and the call of fetch_html                               *)
(***************************************************************************)
\* the prefix test without upper(): a lower-case prefix is not recognized
normalize_pmcid_cased(id) ==
  upper(IF ~startswith(strip(id), PMC) THEN PMC \o strip(id) ELSE strip(id))

normalize_pmcid(id) ==
  LET stripped == strip(id)
      prefixed == IF ~startswith(upper(stripped), PMC) THEN PMC \o stripped ELSE stripped
  IN upper(prefixed)

\* line 475, if not pmcid: for a whitespace-only identifier too
IsEmptyId_stripped(id) == strip(id) = <<>>

\* line 475: if not pmcid
IsEmptyId(id) == id = <<>>

ExtractFullText ==
  /\ pc = "idle"
  /\ calls < MaxCalls
  /\ calls' = calls + 1
  /\ \E id \in PMCIDS :
       /\ arg' = id
       /\ IF IsEmptyId(id)
          THEN /\ ReturnResult(FailureResult(<<>>, NO_PMCID, MSG_EMPTY))
               /\ UNCHANGED <<pmcid, log>>
          ELSE /\ pmcid' = normalize_pmcid(id)
               /\ log' = <<"fetch_html">>
               /\ pc' = "primary"
               /\ UNCHANGED outcome
  /\ UNCHANGED <<use_selenium, driver, browsers, started, fetched, soup, candidates>>
  /\ UNCHANGED direct

(***************************************************************************)
(* fetch_html, lines 331 to 347: the requests transport                    *)
(***************************************************************************)
\* the size test with >= in place of >
LongEnough_ge(page) == page.size >= PageGate

\* lines 335 and 361: len(response.text) > 10000, len(html) > 10000
LongEnough(page) == page.size > PageGate

\* the Selenium block entered whether or not it is configured
AfterPrimary_unconditional ==
  pc' = "selenium" /\ UNCHANGED <<fetched, outcome>>

\* leave the requests transport without a result: lines 349, 350 and 368
AfterPrimary ==
  IF use_selenium
  THEN pc' = "selenium" /\ UNCHANGED <<fetched, outcome>>
  ELSE AfterFetch(None, Some(MSG_UNABLE))

\* how the request ended, as the log records it
PrimaryEnding(resp) ==
  CASE resp.kind = "ok" -> IF LongEnough(resp.page) THEN "ok" ELSE "short"
    [] resp.kind = "HTTPError" -> IF resp.code = 404 THEN "HTTPError 404" ELSE "HTTPError"
    [] OTHER -> resp.kind

PrimaryRequest ==
  /\ pc = "primary"
  /\ \E resp \in PrimaryResponses :
       /\ log' = log \o <<"requests.get", PrimaryEnding(resp)>>
       /\ CASE resp.kind = "ok" ->
                 IF LongEnough(resp.page)
                 THEN AfterFetch(Some(resp.page), None)
                 ELSE AfterPrimary
            [] resp.kind = "Timeout" -> AfterPrimary
            [] resp.kind = "HTTPError" ->
                 IF resp.code = 404
                 THEN AfterFetch(None, Some(MSG_NOT_FOUND(pmcid)))
                 ELSE AfterPrimary
            [] resp.kind = "RequestException" -> AfterPrimary
            [] resp.kind = "Exception" -> Caught(resp.e) /\ UNCHANGED fetched
  /\ UNCHANGED <<use_selenium, driver, browsers, started, calls, arg, pmcid, soup, candidates>>
  /\ UNCHANGED direct

(***************************************************************************)
(* fetch_html, lines 350 to 368: the Selenium transport                    *)
(***************************************************************************)
SeleniumRequest ==
  /\ pc = "selenium"
  /\ log' = Append(log, "selenium")
  /\ \E resp \in SeleniumResponses :
       /\ resp.kind = "setup_driver raises" => driver = 0
       /\ IF resp.kind = "setup_driver raises"
          THEN UNCHANGED <<driver, browsers, started>>
          ELSE IF driver = 0
          THEN /\ started' = started + 1
               /\ driver' = started + 1
               /\ browsers' = browsers \cup {started + 1}
          ELSE UNCHANGED <<driver, browsers, started>>
       /\ IF resp.kind # "ok" THEN AfterFetch(None, Some(MSG_SELENIUM(resp.e)))
          ELSE IF LongEnough(resp.page) THEN AfterFetch(Some(resp.page), None)
          ELSE AfterFetch(None, Some(MSG_UNABLE))
  /\ UNCHANGED <<use_selenium, calls, arg, pmcid, soup, candidates>>
  /\ UNCHANGED direct

(***************************************************************************)
(* extract_full_text, lines 498 to 555: parsing and the extraction chain.  *)
(* Any step inside the try block may raise.                                *)
(***************************************************************************)
Parse ==
  /\ pc = "parse"
  /\ log' = Append(log, "BeautifulSoup")
  /\ \/ /\ soup' = Some(Get(fetched).html[1].doc)
        /\ pc' = "method1"
        /\ UNCHANGED outcome
     \/ \E e \in ERRORS : Caught(e) /\ UNCHANGED soup
  /\ UNCHANGED <<use_selenium, driver, browsers, started, calls, arg, pmcid, fetched, candidates>>
  /\ UNCHANGED direct

\* if text and len(text) > gate
MeetsGate(text, gate) == IsSome(text) /\ Get(text) # <<>> /\ StrLen(Get(text)) > gate

\* strategy 1 without its gate: the chain always goes on to strategy 2
AfterMethod1_ungated(r) ==
  /\ candidates' = Append(candidates, r.text)
  /\ pc' = "method2" /\ UNCHANGED outcome

\* lines 502 to 516: (text, sections) = r is what strategy 1 returned
AfterMethod1(r) ==
  /\ candidates' = Append(candidates, r.text)
  /\ IF MeetsGate(r.text, StrategyGate)
     THEN ReturnResult(TextResult(pmcid, SUCCESS, Get(r.text), METHOD1, r.sections))
     ELSE pc' = "method2" /\ UNCHANGED outcome

Method1 ==
  /\ pc = "method1"
  /\ log' = Append(log, METHOD1)
  /\ \/ AfterMethod1(extract_method1_main_body(Get(soup)))
     \/ \E e \in ERRORS : Caught(e) /\ UNCHANGED candidates
  /\ UNCHANGED <<use_selenium, driver, browsers, started, calls, arg, pmcid, fetched, soup>>
  /\ UNCHANGED direct

\* lines 519 to 533: (text, sections) = r is what strategy 2 returned
AfterMethod2(r) ==
  /\ candidates' = Append(candidates, r.text)
  /\ IF MeetsGate(r.text, StrategyGate)
     THEN ReturnResult(TextResult(pmcid, SUCCESS, Get(r.text), METHOD2, r.sections))
     ELSE pc' = "method3" /\ UNCHANGED outcome

Method2 ==
  /\ pc = "method2"
  /\ log' = Append(log, METHOD2)
  /\ \/ AfterMethod2(extract_method2_heading(Get(soup)))
     \/ \E e \in ERRORS : Caught(e) /\ UNCHANGED candidates
  /\ UNCHANGED <<use_selenium, driver, browsers, started, calls, arg, pmcid, fetched, soup>>
  /\ UNCHANGED direct

\* strategy 3 reporting SUCCESS for its text
AfterMethod3_success(r) ==
  /\ candidates' = Append(candidates, r.text)
  /\ IF MeetsGate(r.text, FallbackGate)
     THEN ReturnResult(TextResult(pmcid, SUCCESS, Get(r.text), METHOD3, r.sections))
     ELSE ReturnResult(FailureResult(pmcid, FAILED, MSG_ALL_FAILED))

\* lines 536 to 555: (text, sections) = r is what strategy 3 returned
AfterMethod3(r) ==
  /\ candidates' = Append(candidates, r.text)
  /\ IF MeetsGate(r.text, FallbackGate)
     THEN ReturnResult(TextResult(pmcid, PARTIAL, Get(r.text), METHOD3, r.sections))
     ELSE ReturnResult(FailureResult(pmcid, FAILED, MSG_ALL_FAILED))

Method3 ==
  /\ pc = "method3"
  /\ log' = Append(log, METHOD3)
  /\ \/ AfterMethod3(extract_method3_fallback(Get(soup)))
     \/ \E e \in ERRORS : Caught(e) /\ UNCHANGED candidates
  /\ UNCHANGED <<use_selenium, driver, browsers, started, calls, arg, pmcid, fetched, soup>>
  /\ UNCHANGED direct

(***************************************************************************)
(* The caller: takes the result, and may call close_driver between calls   *)
(***************************************************************************)
Return ==
  /\ pc = "returned"
  /\ pc' = "idle"
  /\ arg' = <<>>
  /\ pmcid' = <<>>
  /\ fetched' = None
  /\ soup' = None
  /\ candidates' = <<>>
  /\ outcome' = None
  /\ log' = <<>>
  /\ UNCHANGED <<use_selenium, driver, browsers, started, calls>>
  /\ UNCHANGED direct

\* close_driver, lines 317 to 324; quit() may raise, which is swallowed
CloseDriver ==
  /\ pc = "idle"
  /\ driver # 0
  /\ \E quit_ok \in BOOLEAN :
       browsers' = IF quit_ok THEN browsers \ {driver} ELSE browsers
  /\ driver' = 0
  /\ UNCHANGED <<use_selenium, started, calls, pc, arg, pmcid, fetched, soup, candidates,
                 outcome, log>>
  /\ UNCHANGED direct

Next ==
  \/ ExtractFullText
  \/ PrimaryRequest
  \/ SeleniumRequest
  \/ Parse
  \/ Method1
  \/ Method2
  \/ Method3
  \/ Return
  \/ CloseDriver

Spec == Init /\ [][Next]_vars

(***************************************************************************)
(* Direct calls: a caller applies a module-level function, or strategy 3,  *)
(* to a title or a text of its own                                         *)
(***************************************************************************)
\* section titles a caller classifies
Titles ==
  { <<"R", "e", "f", "e", "r", "e", "n", "c", "e", "s">>,
    <<"R", "E", "F", "E", "R", "E", "N", "C", "E", "S">>,
    <<" ", "r", "e", "f", "e", "r", "e", "n", "c", "e", "s", " ">>,
    <<"R", "e", "f", "e", "r", "e", "n", "c", "e">>,
    <<"R", "e", "f", "e", "r", "e", "n", "c", "e", "s", " ", "a", "n", "d",
      " ", "N", "o", "t", "e", "s">>,
    <<"D", "a", "t", "a", " ", "A", "v", "a", "i", "l", "a", "b", "i", "l",
      "i", "t", "y", " ", "S", "t", "a", "t", "e", "m", "e", "n", "t">>,
    <<"d", "a", "t", "a", " ", "a", "v", "a", "i", "l", "a", "b", "i", "l",
      "i", "t", "y">>,
    <<"F", "u", "n", "d", "i", "n", "g">>,
    <<"F", "u", "n", "d", "i", "n", "g", " ", "s", "t", "a", "t", "e", "m",
      "e", "n", "t">>,
    <<"E", "t", "h", "i", "c", "s", " ", "S", "t", "a", "t", "e", "m", "e",
      "n", "t">>,
    <<"R", "e", "s", "u", "l", "t", "s">>,
    <<"\t", "R", "E", "S", "U", "L", "T", "S", "\n">>,
    <<"R", "e", "s", "u", "l", "t", "s", " ", "a", "n", "d", " ", "D", "i",
      "s", "c", "u", "s", "s", "i", "o", "n">>,
    <<"M", "a", "t", "e", "r", "i", "a", "l", "s", " ", "&", " ", "M", "e",
      "t", "h", "o", "d", "s">>,
    <<>>,
    <<" ">>,
    <<"A", "b", "s", "t", "r", "a", "c", "t">>,
    <<"a", "b", "s", "t", "r", "a", "c", "t">>,
    <<"I", "n", "t", "r", "o", "d", "u", "c", "t", "i", "o", "n", " ", "t",
      "o">>,
    <<"F", "o", "o", "t", "n", "o", "t", "e", "s">> }

\* short texts a caller normalizes
Texts ==
  { <<"F", "i", "g", "u", "r", "e", " ", "1", " ", "2", " ", "x">>,
    <<"F", "i", "g", "u", "r", "e", " ", "1", ".", " ", "O", "p", "e", "n",
      " ", "i", "n", " ", "a", " ", "n", "e", "w", " ", "t", "a", "b">>,
    <<"T", "a", "b", "l", "e", " ", " ", "3">>,
    <<"O", "R", "C", "I", "D", " ", "a", "@", "b", ".", "c", "c", " ", ":",
      " ", "x">>,
    <<"O", "R", "C", "I", "D", " ", "I", "D", ":", " ", "0", " ", "a">>,
    <<"a", " ", " ", "b">>,
    <<" ", "a", "\n", "\n", "\n", "b", " ">>,
    <<"\n", " ", "\n">>,
    <<"x", " ", "a", "@", "b", ".", "c", "o", " ", "y">>,
    <<"h", "t", "t", "p", "s", ":", "/", "/", "o", "r", "c", "i", "d", ".",
      "o", "r", "g", "/", "0", " ", "z">>,
    <<"a", "\t", "b", " ", "\n">> }

\* the texts of articles of one paragraph; a run symbol stands for that
\* many letters without a space
ArticleTexts ==
  { <<"q*480", " ", "F", "o", "o", "t", "n", "o", "t", "e", "s", " ",
      "q*30", " ", "R", "e", "f", "e", "r", "e", "n", "c", "e", "s", " ",
      "q*480">>,
    <<"q*480", " ", "q*30", " ", "B", "I", "B", "L", "I", "O", "G", "R",
      "A", "P", "H", "Y", " ", "q*480">>,
    <<"q*480", " ", "q*30">>,
    <<"q*480", " ", "r", "e", "f", "e", "r", "e", "n", "c", "e", "s", " ",
      "q*30">>,
    <<"q*480", " ", "q*30", " ", "R", "e", "f", "e", "r", "e", "n", "c",
      "e", "d", " ", "q*30">> }

FunctionInputs == Titles \cup Texts \cup ArticleTexts

\* the parsed markup of an article element that holds one paragraph
ArticleOf(text) == [outer |-> "article", inner |-> "none", children |-> <<Elem("p", text)>>]

InitFunctions ==
  /\ use_selenium = FALSE
  /\ driver = 0
  /\ browsers = {}
  /\ started = 0
  /\ calls = 0
  /\ pc = "idle"
  /\ arg = <<>>
  /\ pmcid = <<>>
  /\ fetched = None
  /\ soup = None
  /\ candidates = <<>>
  /\ outcome = None
  /\ log = <<>>
  /\ fn = "none"
  /\ input \in FunctionInputs
  /\ output = <<>>
  /\ frame = None

scraper == <<use_selenium, driver, browsers, started, calls, pc, arg, pmcid, fetched, soup, candidates, outcome, log>>

IsExcludeSection ==
  /\ fn = "none"
  /\ fn' = "is_exclude_section"
  /\ output' = is_exclude_section(input)
  /\ UNCHANGED <<input, frame, scraper>>

IsMainContentSection ==
  /\ fn = "none"
  /\ fn' = "is_main_content_section"
  /\ output' = is_main_content_section(input)
  /\ UNCHANGED <<input, frame, scraper>>

CleanTextV2 ==
  /\ fn = "none"
  /\ fn' = "clean_text_v2"
  /\ output' = clean_text_v2(input)
  /\ UNCHANGED <<input, frame, scraper>>

\* the caller normalizes the text it got from clean_text_v2
CleanTextV2Again ==
  /\ fn = "clean_text_v2"
  /\ fn' = "clean_text_v2 again"
  /\ input' = output
  /\ output' = clean_text_v2(output)
  /\ UNCHANGED <<frame, scraper>>

ExtractMethod3Fallback ==
  /\ fn = "none"
  /\ fn' = "extract_method3_fallback"
  /\ output' = extract_method3_fallback(ArticleOf(input)).text
  /\ UNCHANGED <<input, frame, scraper>>

NextFunctions ==
  \/ IsExcludeSection
  \/ IsMainContentSection
  \/ CleanTextV2
  \/ CleanTextV2Again
  \/ ExtractMethod3Fallback

SpecFunctions == InitFunctions /\ [][NextFunctions]_vars

(***************************************************************************)
(* chunk_text_v2 step by step: the call, then one action per iteration of  *)
(* its while loop                                                          *)
(***************************************************************************)
MaxChunkSize == 3
MaxOverlap == 3
MaxIterations == 7

\* the texts a caller chunks: up to six words, with plain and with irregular
\* whitespace between them
ChunkTexts ==
  { <<>>,
    <<" ">>,
    <<"a">>,
    <<"a", " ", "b">>,
    <<" ", "a", " ", " ", "b", "\n", "c", " ">>,
    <<"a", " ", "b", " ", "c", " ", "d">>,
    <<"a", " ", "a", " ", "a", " ", "a">>,
    <<"a", " ", "b", " ", " ", "c", " ", "d", " ", "e">>,
    <<"a", "\t", "b", " ", "c", " ", "d", " ", "e", " ", "f", "\n">> }

ChunkArgs ==
  {[text |-> t, chunk_size_words |-> c, overlap_words |-> o] :
     t \in ChunkTexts, c \in 1..MaxChunkSize, o \in 0..MaxOverlap}

\* xs[a:b] for a list xs: a negative index counts from the end
PyIndex(n, a) == IF a < 0 THEN (IF a + n < 0 THEN 0 ELSE a + n) ELSE Min(a, n)

PySlice(xs, a, b) == SubSeq(xs, PyIndex(Len(xs), a) + 1, PyIndex(Len(xs), b))

\* the test with < in place of <=
fits_strict(words, chunk_size_words) == Len(words) < chunk_size_words

\* line 273: len(words) <= chunk_size_words
fits(words, chunk_size_words) == Len(words) <= chunk_size_words

\* a window one word shorter
window_end_short(start, chunk_size_words, n) == Min(start + chunk_size_words - 1, n)

\* line 279: end = min(start + chunk_size_words, len(words))
window_end(start, chunk_size_words, n) == Min(start + chunk_size_words, n)

\* the next window starts where this one ended
next_start_full(start, chunk_size_words, overlap_words) == start + chunk_size_words

\* the next window starts one word late
next_start_gap(start, chunk_size_words, overlap_words) ==
  start + (chunk_size_words - overlap_words) + 1

\* line 284: start += chunk_size_words - overlap_words
next_start(start, chunk_size_words, overlap_words) ==
  start + (chunk_size_words - overlap_words)

InitChunker ==
  /\ use_selenium = FALSE
  /\ driver = 0
  /\ browsers = {}
  /\ started = 0
  /\ calls = 0
  /\ pc = "idle"
  /\ arg = <<>>
  /\ pmcid = <<>>
  /\ fetched = None
  /\ soup = None
  /\ candidates = <<>>
  /\ outcome = None
  /\ log = <<>>
  /\ fn = "none"
  /\ input \in ChunkArgs
  /\ output = <<>>
  /\ frame = None

\* lines 272 to 277: the call up to the loop
ChunkTextV2 ==
  /\ fn = "none"
  /\ fn' = "chunk_text_v2"
  /\ IF fits(split(input.text), input.chunk_size_words)
     THEN output' = <<input.text>> /\ frame' = None
     ELSE /\ frame' = [words |-> split(input.text), start |-> 0, chunks |-> <<>>]
          /\ UNCHANGED output
  /\ UNCHANGED <<input, scraper>>

\* the loop is left: return chunks
ReturnChunks(chunks) == output' = chunks /\ frame' = None

\* lines 278 to 284: one iteration of the while loop
ChunkLoop ==
  /\ fn = "chunk_text_v2"
  /\ frame # None
  /\ Len(frame.chunks) < MaxIterations
  /\ IF ~(frame.start < Len(frame.words)) THEN ReturnChunks(frame.chunks)
     ELSE IF window_end(frame.start, input.chunk_size_words, Len(frame.words)) = Len(frame.words)
     THEN ReturnChunks(Append(frame.chunks,
            join(<<" ">>, PySlice(frame.words, frame.start, Len(frame.words)))))
     ELSE /\ frame' =
               [frame EXCEPT
                  !.chunks = Append(@, join(<<" ">>, PySlice(frame.words, frame.start,
                               window_end(frame.start, input.chunk_size_words, Len(frame.words))))),
                  !.start = next_start(@, input.chunk_size_words, input.overlap_words)]
          /\ UNCHANGED output
  /\ UNCHANGED <<fn, input, scraper>>

NextChunker ==
  \/ ChunkTextV2
  \/ ChunkLoop

SpecChunker == InitChunker /\ [][NextChunker]_vars

(***************************************************************************)
(* The LLM calls: chat_completion (main_extraction.py) and grok_function   *)
(* (double_llm_validation.py), one action per API request                  *)
(***************************************************************************)
MaxRetries == 3
MaxBackoff == 3

\* the calls made: chat_completion(messages, max_retries, backoff_factor) and
\* grok_function, whose loop is range(3) with 2 ** attempt
LLMCalls ==
  {[function |-> "chat_completion", max_retries |-> m, backoff_factor |-> b] :
     m \in 1..MaxRetries, b \in 1..MaxBackoff}
  \cup {[function |-> "grok_function", max_retries |-> 3, backoff_factor |-> 2]}

\* how client.chat.completions.create(...) and the reading of its response
\* can end: a response text; an OpenAIError with status_code 429 or with
\* another status_code; an OpenAIError that has no attribute status_code (a
\* connection error); an exception that is no OpenAIError
ApiOutcomes ==
  {[kind |-> "ok", text |-> t] : t \in {<<"answer">>, <<"1.", " ", "Model">>}}
  \cup {[kind |-> k, text |-> <<>>] :
          k \in {"429", "500", "OpenAIError without status_code", "Exception"}}

RECURSIVE Pow(_, _)
Pow(b, n) == IF n = 0 THEN 1 ELSE b * Pow(b, n - 1)

\* backoff_factor ** attempt, and (2 ** attempt) * 5
sleep_time(call, attempt) ==
  IF call.function = "chat_completion" THEN Pow(call.backoff_factor, attempt)
  ELSE Pow(2, attempt) * 5

Returned(value) == [kind |-> "returned", value |-> value]
RaisedOut(e) == [kind |-> "raised", value |-> e]

\* the value returned for an API error that is not a rate limit
ApiFailure(call) ==
  IF call.function = "chat_completion" THEN Returned(None)
  ELSE Returned(Some(<<"Grok API error:">>))

\* the value returned after the last attempt
MaxRetriesFailure(call) ==
  IF call.function = "chat_completion" THEN Returned(None)
  ELSE Returned(Some(<<"Max retries reached for Grok API">>))

\* e.status_code of an error without that attribute raises AttributeError in
\* the handler; chat_completion has no handler around it, grok_function has
\* the outer except Exception
NoStatusCode(call) ==
  IF call.function = "chat_completion" THEN RaisedOut("AttributeError")
  ELSE Returned(Some(<<"Error in grok_function:">>))

\* an exception that is no OpenAIError: not caught by chat_completion, caught
\* by the inner except Exception of grok_function
OtherException(call) ==
  IF call.function = "chat_completion" THEN RaisedOut("Exception")
  ELSE Returned(Some(<<"Error:">>))

InitLLM ==
  /\ use_selenium = FALSE
  /\ driver = 0
  /\ browsers = {}
  /\ started = 0
  /\ calls = 0
  /\ pc = "idle"
  /\ arg = <<>>
  /\ pmcid = <<>>
  /\ fetched = None
  /\ soup = None
  /\ candidates = <<>>
  /\ outcome = None
  /\ log = <<>>
  /\ fn = "none"
  /\ input \in LLMCalls
  /\ output = <<>>
  /\ frame = None

LLMCall ==
  /\ fn = "none"
  /\ fn' = input.function
  /\ frame' = [attempt |-> 0, requests |-> 0, slept |-> <<>>]
  /\ UNCHANGED <<input, output, scraper>>

\* the call ends after the request of this attempt; frame keeps its counts
LLMEnds(value) == output' = value /\ frame' = [frame EXCEPT !.requests = @ + 1]

\* one iteration of for attempt in range(max_retries)
LLMAttempt ==
  /\ fn \in {"chat_completion", "grok_function"}
  /\ output = <<>>
  /\ frame.attempt < input.max_retries
  /\ \E r \in ApiOutcomes :
       CASE r.kind = "ok" -> LLMEnds(Returned(Some(r.text)))
         [] r.kind = "429" ->
              /\ frame' = [attempt |-> frame.attempt + 1,
                           requests |-> frame.requests + 1,
                           slept |-> Append(frame.slept, sleep_time(input, frame.attempt))]
              /\ UNCHANGED output
         [] r.kind = "500" -> LLMEnds(ApiFailure(input))
         [] r.kind = "OpenAIError without status_code" -> LLMEnds(NoStatusCode(input))
         [] r.kind = "Exception" -> LLMEnds(OtherException(input))
  /\ UNCHANGED <<fn, input, scraper>>

\* the loop is over
LLMExhausted ==
  /\ fn \in {"chat_completion", "grok_function"}
  /\ output = <<>>
  /\ frame.attempt = input.max_retries
  /\ output' = MaxRetriesFailure(input)
  /\ UNCHANGED <<fn, input, frame, scraper>>

NextLLM ==
  \/ LLMCall
  \/ LLMAttempt
  \/ LLMExhausted

SpecLLM == InitLLM /\ [][NextLLM]_vars

(***************************************************************************)
(* main: the loop over the PMIDs, one action per stage of an iteration     *)
(***************************************************************************)
MaxPmids == 2

\* the lists read_pmid_from_txt can return: up to MaxPmids different PMIDs
PmidLists == {[k \in 1..n |-> k] : n \in 0..MaxPmids}

\* five prompts in place of four
PROMPTS_five == <<1, 2, 3, 4, 5>>

\* get_prompts(): [prompt1, prompt2, prompt3, prompt4], by their numbers
PROMPTS == <<1, 2, 3, 4>>

InitMain ==
  /\ use_selenium = FALSE
  /\ driver = 0
  /\ browsers = {}
  /\ started = 0
  /\ calls = 0
  /\ pc = "idle"
  /\ arg = <<>>
  /\ pmcid = <<>>
  /\ fetched = None
  /\ soup = None
  /\ candidates = <<>>
  /\ outcome = None
  /\ log = <<>>
  /\ fn = "none"
  /\ input \in PmidLists
  /\ output = <<>>
  /\ frame = None

\* lines 792 to 815: the PMID list is read, the files are opened, the
\* counters are set; main returns at once when the list is empty
MainStart ==
  /\ fn = "none"
  /\ fn' = "main"
  /\ frame' = [at |-> IF input = <<>> THEN "done" ELSE "setup", idx |-> 1,
               driver |-> 0, created |-> 0, quit |-> {},
               literature |-> <<>>, sample |-> <<>>,
               success_count |-> 0, fail_count |-> 0,
               full_text |-> FALSE, prompt |-> 1, responses |-> <<>>, parsed |-> <<>>]
  /\ UNCHANGED <<input, output, scraper>>

At(stage) == fn = "main" /\ frame.at = stage

\* lines 818 to 821: driver = None; driver = setup_driver()
MainSetupDriver ==
  /\ At("setup")
  /\ \E ok \in BOOLEAN :
       frame' = IF ok
                THEN [frame EXCEPT !.at = "scrape", !.driver = frame.created + 1,
                                   !.created = @ + 1]
                ELSE [frame EXCEPT !.at = "except", !.driver = 0]
  /\ UNCHANGED <<fn, input, output, scraper>>

\* lines 822 to 830: fetch_pubmed_data and fetch_pmc_full_text_v2
MainScrape ==
  /\ At("scrape")
  /\ \E r \in {"raises", "no pmcid", "no full text", "full text"} :
       frame' = IF r = "raises" THEN [frame EXCEPT !.at = "except"]
                ELSE [frame EXCEPT !.at = "literature", !.full_text = (r = "full text")]
  /\ UNCHANGED <<fn, input, output, scraper>>

\* lines 833 to 847: the literature row
MainLiterature ==
  /\ At("literature")
  /\ \E ok \in BOOLEAN :
       frame' = IF ok
                THEN [frame EXCEPT !.at = IF frame.full_text THEN "prompt" ELSE "rows",
                                   !.literature = Append(@, input[frame.idx]),
                                   !.prompt = 1, !.responses = <<>>]
                ELSE [frame EXCEPT !.at = "except"]
  /\ UNCHANGED <<fn, input, output, scraper>>

\* process_input, lines 723 to 733: one prompt; chat_completion returns a
\* text, returns None, or raises
MainPrompt ==
  /\ At("prompt")
  /\ \E r \in {"text", "None", "raises"} :
       frame' = IF r = "raises" THEN [frame EXCEPT !.at = "except"]
                ELSE [frame EXCEPT
                        !.at = IF frame.prompt = Len(PROMPTS) THEN "rows" ELSE "prompt",
                        !.prompt = @ + 1,
                        !.responses = IF r = "text" THEN Append(@, PROMPTS[frame.prompt]) ELSE @]
  /\ UNCHANGED <<fn, input, output, scraper>>

\* line 852: if len(responses) >= 4
parse_branch(responses) == Len(responses) >= 4

\* lines 852 to 891: the sample row and the model rows, parsed from
\* responses[2] and responses[3] or empty; then success_count += 1
MainRows ==
  /\ At("rows")
  /\ \E w \in {"ok", "sample raises", "model raises"} :
       frame' =
         [frame EXCEPT
            !.parsed = IF frame.full_text /\ parse_branch(frame.responses)
                       THEN [sample |-> frame.responses[3], model |-> frame.responses[4],
                             responses |-> frame.responses]
                       ELSE <<>>,
            !.sample = IF w = "sample raises" THEN @ ELSE Append(@, input[frame.idx]),
            !.success_count = IF w = "ok" THEN @ + 1 ELSE @,
            !.at = IF w = "ok" THEN "finally" ELSE "except"]
  /\ UNCHANGED <<fn, input, output, scraper>>

\* lines 894 to 924: except Exception: fail_count += 1 and the error record;
\* a failure to write it is swallowed
MainExcept ==
  /\ At("except")
  /\ \E w \in {"ok", "literature raises", "sample raises", "model raises"} :
       frame' =
         [frame EXCEPT
            !.fail_count = @ + 1,
            !.literature = IF w = "literature raises" THEN @ ELSE Append(@, input[frame.idx]),
            !.sample = IF w \in {"literature raises", "sample raises"} THEN @
                       ELSE Append(@, input[frame.idx]),
            !.at = "finally"]
  /\ UNCHANGED <<fn, input, output, scraper>>

\* the drivers quit() was called on when the finally clause is skipped
quit_skipped(f) == f.quit

\* lines 926 to 932: if driver: driver.quit(), an error of quit() swallowed
quit_called(f) == IF f.driver # 0 THEN f.quit \cup {f.driver} ELSE f.quit

MainFinally ==
  /\ At("finally")
  /\ frame' = [frame EXCEPT !.quit = quit_called(frame),
                            !.idx = @ + 1,
                            !.at = IF frame.idx = Len(input) THEN "done" ELSE "setup"]
  /\ UNCHANGED <<fn, input, output, scraper>>

NextMain ==
  \/ MainStart
  \/ MainSetupDriver
  \/ MainScrape
  \/ MainLiterature
  \/ MainPrompt
  \/ MainRows
  \/ MainExcept
  \/ MainFinally

SpecMain == InitMain /\ [][NextMain]_vars

(***************************************************************************)
(* Properties of the extraction chain and of the fetcher                   *)
(***************************************************************************)
IsStrategy(x) == x \in {METHOD1, METHOD2, METHOD3}

\* the strategies run so far in the current call, in the order they ran
StrategiesRun == SelectSeq(log, IsStrategy)

\* how often the current call made the call x
Count(x) == Cardinality({k \in 1..Len(log) : log[k] = x})

\* how the primary request of the current call ended
PrimaryEnded == IF Len(log) >= 3 THEN log[3] ELSE "not yet"

\* fetch_html is over: it returned or raised
FetchOver == arg # <<>> /\ pc \in {"parse", "method1", "method2", "method3", "returned"}

\* a candidate that is text longer than n
Longer(c, n) == IsSome(c) /\ StrLen(Get(c)) > n

\* the message holds the words w next to each other
Contains(msg, w) == \E k \in 1..(Len(msg) - Len(w) + 1) : SubSeq(msg, k, k + Len(w) - 1) = w

IsSet(message) == IsSome(message) /\ Get(message) # <<>>

\* C1: the strategies run in the order 1, 2, 3; strategy 2 runs only after
\* strategy 1 returned no text or text of length <= 1000, strategy 3 only
\* after strategy 2 did too; and an outcome whose strategy 1 candidate is
\* longer than 1000 has method_used = method1_main_body.
C1_StrategyOrder ==
  /\ StrategiesRun = SubSeq(<<METHOD1, METHOD2, METHOD3>>, 1, Len(StrategiesRun))
  /\ Len(StrategiesRun) >= 2 => Len(candidates) >= 1 /\ ~Longer(candidates[1], 1000)
  /\ Len(StrategiesRun) >= 3 => Len(candidates) >= 2 /\ ~Longer(candidates[2], 1000)
  /\ (pc = "returned" /\ Len(candidates) >= 1 /\ Longer(candidates[1], 1000))
       => Get(outcome).method_used = Some(METHOD1)

\* an outcome of strategy 1 on markup on which strategy 2 would pass its gate too
C1_Witness ==
  /\ pc = "returned"
  /\ Get(outcome).method_used = Some(METHOD1)
  /\ Longer(candidates[1], 1000)
  /\ Longer(extract_method2_heading(Get(soup)).text, 1000)

\* C2: a call returns one outcome; its status is one of the four, SUCCESS
\* iff method_used is method1_main_body or method2_heading, PARTIAL iff it
\* is method3_fallback, FAILED or NO_PMCID iff method_used is absent.
C2_StatusAgreesWithMethod ==
  /\ IsSome(outcome) <=> pc = "returned"
  /\ pc = "returned" =>
       /\ Get(outcome).status \in {SUCCESS, PARTIAL, FAILED, NO_PMCID}
       /\ Get(outcome).status = SUCCESS
            <=> Get(outcome).method_used \in {Some(METHOD1), Some(METHOD2)}
       /\ Get(outcome).status = PARTIAL <=> Get(outcome).method_used = Some(METHOD3)
       /\ Get(outcome).status \in {FAILED, NO_PMCID} <=> Get(outcome).method_used = None

\* an outcome of the fallback strategy
C2_Witness ==
  /\ pc = "returned"
  /\ Get(outcome).status = PARTIAL
  /\ Get(outcome).method_used = Some(METHOD3)

\* C3: in every outcome the chunk sequence is non-empty iff full_text is
\* present and non-empty (so it is empty when the normalizer left the empty
\* string, and when full_text is absent).
C3_ChunksIffText ==
  pc = "returned" =>
    ((IsSome(Get(outcome).full_text_chunks) /\ Get(Get(outcome).full_text_chunks) # <<>>)
       <=> (IsSome(Get(outcome).full_text) /\ Get(Get(outcome).full_text) # <<>>))

\* C4: the full_text of a SUCCESS outcome is longer than 1000, that of a
\* PARTIAL outcome longer than 500.
C4_StoredTextMeetsGate ==
  pc = "returned" =>
    /\ Get(outcome).status = SUCCESS => Longer(Get(outcome).full_text, 1000)
    /\ Get(outcome).status = PARTIAL => Longer(Get(outcome).full_text, 500)

\* C5: in every outcome error_message is set (non-empty) iff full_text is
\* absent; it is set only with status FAILED or NO_PMCID, and every FAILED or
\* NO_PMCID outcome has one.
C5_ErrorIffNoText ==
  pc = "returned" =>
    /\ IsSet(Get(outcome).error_message) <=> Get(outcome).full_text = None
    /\ IsSet(Get(outcome).error_message) => Get(outcome).status \in {FAILED, NO_PMCID}
    /\ Get(outcome).status \in {FAILED, NO_PMCID} => IsSet(Get(outcome).error_message)

\* an exception with an empty text was caught
C5_Witness ==
  /\ pc = "returned"
  /\ Get(outcome).status = FAILED
  /\ Get(outcome).error_message = Some(MSG_EXCEPTION(<<>>))

\* C6: for the empty identifier the outcome is NO_PMCID with a message and
\* nothing was called, fetch_html and the transports included; for a
\* non-empty identifier fetch_html was called exactly once.
C6_FetchOncePerIdentifier ==
  /\ (arg # <<>> /\ pc # "idle") => Count("fetch_html") = 1
  /\ (arg = <<>> /\ pc = "returned") =>
       /\ Get(outcome).status = NO_PMCID
       /\ IsSet(Get(outcome).error_message)
       /\ log = <<>>

\* a call with a whitespace-only identifier has returned
C6_Witness ==
  /\ pc = "returned"
  /\ arg = <<" ">>
  /\ Count("fetch_html") = 1
  /\ Get(outcome).pmcid = PMC

\* C7: after a 404 answer fetch_html has returned no markup and an error
\* containing "not found", the Selenium transport was not entered although it
\* may be configured, no strategy ran, and the outcome is FAILED.
C7_NotFound ==
  PrimaryEnded = "HTTPError 404" =>
    /\ pc = "returned"
    /\ log = <<"fetch_html", "requests.get", "HTTPError 404">>
    /\ IsSome(fetched)
    /\ Get(fetched).html = None
    /\ IsSome(Get(fetched).error)
    /\ Contains(Get(Get(fetched).error), <<"not", " ", "found">>)
    /\ Get(outcome).status = FAILED
    /\ candidates = <<>>

\* a 404 answer with the Selenium transport configured
C7_Witness ==
  /\ PrimaryEnded = "HTTPError 404"
  /\ use_selenium
  /\ pc = "returned"

\* C8: in one fetch_html call requests.get is called once and the Selenium
\* block is entered at most once, and it is entered iff Selenium is
\* configured and the request ended in a timeout, an HTTP error other than
\* 404, another request failure or a body of length <= 10000.
C8_TransportAttempts ==
  /\ Count("requests.get") <= 1
  /\ Count("selenium") <= 1
  /\ (FetchOver \/ pc = "selenium") => Count("requests.get") = 1
  /\ pc = "selenium" => Count("selenium") = 0
  /\ (FetchOver \/ pc = "selenium") =>
       ((Count("selenium") = 1 \/ pc = "selenium")
          <=> (use_selenium
               /\ PrimaryEnded \in {"Timeout", "HTTPError", "RequestException", "short"}))

\* the Selenium block ran once after a body that was too short
C8_Witness ==
  /\ FetchOver
  /\ PrimaryEnded = "short"
  /\ Count("selenium") = 1

\* C9: fetch_html returns markup only if it is longer than 10000, from either
\* transport; otherwise it returns no markup and a non-empty error: exactly
\* one of the two is set.
C9_MarkupOrError ==
  IsSome(fetched) =>
    /\ IsSome(Get(fetched).html) => Get(Get(fetched).html).size > 10000
    /\ IsSome(Get(fetched).html) <=> Get(fetched).error = None
    /\ Get(fetched).html = None => IsSet(Get(fetched).error)

\* the Selenium transport delivered a page that is too short
C9_Witness ==
  /\ IsSome(fetched)
  /\ Count("selenium") = 1
  /\ Get(fetched).html = None
  /\ Get(fetched).error = Some(MSG_UNABLE)
  /\ driver # 0

\* C10: when extract_full_text returns, the Selenium session it acquired is
\* closed and self.driver released.
C10_SessionClosedOnReturn ==
  pc = "returned" => driver = 0 /\ browsers = {}

(***************************************************************************)
(* Properties of the error handling, the strategies, the classifier and    *)
(* the normalizer                                                          *)
(***************************************************************************)
InCall == {"primary", "selenium", "parse", "method1", "method2", "method3"}

ResultFields ==
  {"pmcid", "status", "full_text", "full_text_chunks", "error_message",
   "method_used", "sections_found", "char_count", "word_count"}

WellFormed(r) == DOMAIN r = ResultFields /\ r.status \in ExtractionStatus

\* this step raises inside the try block: the parser or a strategy ends
\* without a value, or the primary request raises outside requests' classes
Raised ==
  \/ pc = "parse" /\ soup' = None
  \/ pc \in {"method1", "method2", "method3"} /\ candidates' = candidates
  \/ pc = "primary" /\ log'[Len(log')] = "Exception"

DirectSections(d) == SelectSeq(ChildrenOf(d, find_main_body(d)), IsSectionNode)

TitleOf(n) == IF n.hl # 0 THEN get_text_strip(<<n.title>>) ELSE <<>>

ExcludedSection(n) == TitleOf(n) # <<>> /\ is_exclude_section(TitleOf(n))

\* the sections before the first one with an excluded title
BeforeExcluded(secs) ==
  IF \E k \in 1..Len(secs) : ExcludedSection(secs[k])
  THEN SubSeq(secs, 1, Least({k \in 1..Len(secs) : ExcludedSection(secs[k])}) - 1)
  ELSE secs

LongerThan50(n) == StrLen(NodeText(n)) > 50

Titled(n) == TitleOf(n) # <<>>

KeptSections(d) == SelectSeq(BeforeExcluded(DirectSections(d)), LongerThan50)

Method1Ran == IsSome(soup) /\ Count(METHOD1) = 1 /\ find_main_body(Get(soup)) # "none"

\* C12: strategy 1 stops at the first direct-child section with an excluded
\* title: its text is the texts, in document order and joined by a space, of
\* the direct-child sections before that one that are longer than 50
\* characters (no text when there is none), and sections_found is the
\* titles, in the same order, of those of them that have a title; no section
\* at or after the first excluded one contributes.
C12_StopsAtFirstExcluded ==
  Method1Ran =>
    LET r == extract_method1_main_body(Get(soup))
        kept == KeptSections(Get(soup))
        titled == SelectSeq(kept, Titled)
    IN /\ r.text = IF kept = <<>> THEN None
                   ELSE Some(join(<<" ">>, [k \in 1..Len(kept) |-> NodeText(kept[k])]))
       /\ r.sections = [k \in 1..Len(titled) |-> TitleOf(titled[k])]

\* a long section after an excluded one: only the section before it is kept
C12_Witness ==
  /\ Method1Ran
  /\ Len(DirectSections(Get(soup))) = 2
  /\ ExcludedSection(DirectSections(Get(soup))[1])
  /\ LongerThan50(DirectSections(Get(soup))[2])
  /\ ~ExcludedSection(DirectSections(Get(soup))[2])
  /\ extract_method1_main_body(Get(soup)) = [text |-> None, sections |-> <<>>]

\* the titles of the h2/h3 headings of the document, in document order
HeadingTitle(n) == get_text_strip(<<n.title>>)

Headings(d) == SelectSeq(d.children, IsH23)

IsMainHeading(n) == is_main_content_section(HeadingTitle(n))

IsExcludedHeadingNode(n) == is_exclude_section(HeadingTitle(n))

\* the position of the first main-content heading, 0 when there is none
FirstMain(hs) ==
  IF \E k \in 1..Len(hs) : IsMainHeading(hs[k])
  THEN Least({k \in 1..Len(hs) : IsMainHeading(hs[k])}) ELSE 0

\* the position of the first excluded heading after position m, Len + 1
\* when there is none
FirstExcludedAfter(hs, m) ==
  IF \E k \in (m + 1)..Len(hs) : IsExcludedHeadingNode(hs[k])
  THEN Least({k \in (m + 1)..Len(hs) : IsExcludedHeadingNode(hs[k])}) ELSE Len(hs) + 1

\* the headings from the first main-content heading up to, not including,
\* the first excluded heading after it
FromMainToExcluded(hs) ==
  IF FirstMain(hs) = 0 THEN <<>>
  ELSE SubSeq(hs, FirstMain(hs), FirstExcludedAfter(hs, FirstMain(hs)) - 1)

Method2Ran == IsSome(soup) /\ Count(METHOD2) = 1

\* C13: the headings strategy 2 collects are exactly those from the first
\* main-content heading up to but not including the first excluded heading
\* after it; a heading before the first main-content heading does not end
\* the scan, whatever its classification.
C13_CollectedHeadings ==
  Method2Ran =>
    LET hs == FromMainToExcluded(Headings(Get(soup)))
    IN extract_method2_heading(Get(soup)).sections = [k \in 1..Len(hs) |-> HeadingTitle(hs[k])]

\* the level of a bare heading element
LevelOf(n) == CASE n.tag = "h1" -> 1 [] n.tag = "h2" -> 2 [] n.tag = "h3" -> 3 [] OTHER -> 4

\* the texts of the elements from position k on, up to the next heading of
\* level <= level
RECURSIVE UntilSameOrHigher(_, _, _)
UntilSameOrHigher(children, k, level) ==
  IF k > Len(children) \/ (children[k].tag \in HeadingTags /\ LevelOf(children[k]) <= level)
  THEN <<>>
  ELSE (IF NodeText(children[k]) # <<>> THEN <<NodeText(children[k])>> ELSE <<>>)
       \o UntilSameOrHigher(children, k + 1, level)

\* child k is a bare h2/h3 heading that strategy 2 collects
CollectedHeading(d, k) ==
  /\ d.children[k].tag \in {"h2", "h3"}
  /\ \E j \in 1..Len(extract_method2_heading(d).sections) :
       extract_method2_heading(d).sections[j] = HeadingTitle(d.children[k])

\* C14: the content strategy 2 gathers for a collected heading is all the
\* sibling content after it up to the next heading of the same or a higher
\* level: a level-3 heading does not end the gathering for a level-2 heading.
C14_GathersToSameOrHigherLevel ==
  Method2Ran =>
    \A k \in 1..Len(Get(soup).children) :
      CollectedHeading(Get(soup), k) =>
        heading_content(Get(soup).children, k)
          = UntilSameOrHigher(Get(soup).children, k + 1, LevelOf(Get(soup).children[k]))

\* where the earliest whole-word, case-insensitive occurrence of a marker
\* word starts in the text, 0 when there is none
EarliestMarker(text) ==
  IF \A k \in 1..Len(MARKER_PATTERNS) : re_search(MARKER_PATTERNS[k], text, 1, TRUE) = 0
  THEN 0
  ELSE Least({re_search(MARKER_PATTERNS[k], text, 1, TRUE) : k \in 1..Len(MARKER_PATTERNS)} \ {0})

BeforeEarliestMarker(text) ==
  IF EarliestMarker(text) = 0 THEN text ELSE SubSeq(text, 1, EarliestMarker(text) - 1)

HasMarker(text) == EarliestMarker(text) # 0

\* C15: the text strategy 3 returns is the flattened text cut at the earliest
\* whole-word, case-insensitive occurrence of any of References,
\* Bibliography, Footnotes, so it contains none of the three words.
C15_CutAtEarliestMarker ==
  (fn = "extract_method3_fallback" /\ IsSome(output)) =>
    /\ Get(output) = strip(BeforeEarliestMarker(article_text(ArticleOf(input).children)))
    /\ ~HasMarker(Get(output))

\* the program that matches only up to the end of the text; a trimmed title
\* does not end with a line break, so the end of the line is the last character
ToTheEnd(prog) == SubSeq(prog, 1, Len(prog) - 1) \o <<IAt("eol"), IMatch>>

\* the whole of s, from its first to its last character, matches a pattern
WholeMatchesAny(patterns, s) ==
  \E k \in 1..Len(patterns) : re_match(ToTheEnd(patterns[k]), s, TRUE)

\* C17: is_exclude_section(title) is true iff the whole trimmed, lower-cased
\* title matches a pattern of the exclude table from its first to its last
\* character, and is_main_content_section likewise for the main-content
\* table: a title that begins with a table entry and goes on with further
\* words is not classified; an empty title is classified as neither.
C17_WholeTitleMatches ==
  /\ fn = "is_exclude_section" =>
       output = (input # <<>> /\ WholeMatchesAny(EXCLUDE_SECTION_PATTERNS, lower(strip(input))))
  /\ fn = "is_main_content_section" =>
       output = (input # <<>> /\ WholeMatchesAny(MAIN_CONTENT_PATTERNS, lower(strip(input))))

\* the two titles are equal after trimming and lower-casing
SameTitle(a, b) == lower(strip(a)) = lower(strip(b))

\* C18: classification does not depend on letter case or on surrounding
\* whitespace: titles that are equal after trimming and lower-casing get
\* the same answer from is_exclude_section, and the same answer from
\* is_main_content_section.
C18_CaseAndSpaceInsensitive ==
  /\ fn = "is_exclude_section" =>
       \A t \in Titles : SameTitle(t, input) => is_exclude_section(t) = output
  /\ fn = "is_main_content_section" =>
       \A t \in Titles : SameTitle(t, input) => is_main_content_section(t) = output

\* an excluded title that has a differently written twin
C18_Witness ==
  /\ fn = "is_exclude_section"
  /\ output = TRUE
  /\ \E t \in Titles : t # input /\ SameTitle(t, input) /\ t # lower(t) /\ t = strip(t)

\* C19: clean_text_v2 is idempotent: applied to a text it returned, it
\* returns that text again, also where removing a token or a caption number
\* brings together characters that form a new removable token.
C19_Idempotent ==
  fn = "clean_text_v2 again" => output = input

\* positions k and k + 1 of the text both hold whitespace
AdjacentSpaces(text) == \E k \in 1..(Len(text) - 1) : IsSpace(text[k]) /\ IsSpace(text[k + 1])

\* the text holds more than one blank line in a row: three line breaks
TwoBlankLines(text) ==
  \E k \in 1..(Len(text) - 2) : text[k] = "\n" /\ text[k + 1] = "\n" /\ text[k + 2] = "\n"

Normalized == fn \in {"clean_text_v2", "clean_text_v2 again"}

\* C20: the output of clean_text_v2 has no leading and no trailing
\* whitespace, no two adjacent whitespace characters, and at most one blank
\* line in a row; the empty input gives the empty output.
C20_WhitespaceNormalized ==
  Normalized =>
    /\ output # <<>> => ~IsSpace(output[1]) /\ ~IsSpace(output[Len(output)])
    /\ ~AdjacentSpaces(output)
    /\ ~TwoBlankLines(output)
    /\ input = <<>> => output = <<>>

\* a text with spaces at both ends and a run of blank lines inside
C20_Witness ==
  /\ fn = "clean_text_v2"
  /\ input # <<>>
  /\ IsSpace(input[1]) /\ IsSpace(input[Len(input)])
  /\ TwoBlankLines(input)
  /\ output = <<"a", " ", "b">>

\* the text of the markup after its non-content elements are removed and
\* the text is cut at the marker word
TextLeft(d) == truncate_at_marker(article_text(SelectSeq(d.children, IsContentNode)), 1)

\* strategies 1 and 2 did not meet their gates and strategy 3 returned
ChainExhausted == pc = "returned" /\ Len(candidates) = 3

\* C16: when strategies 1 and 2 do not meet their gates, the outcome is
\* PARTIAL with method_used method3_fallback iff the text left after removing
\* the non-content elements and truncating at the marker word is longer
\* than 500, and otherwise FAILED with the structure-non-standard message,
\* for every markup, with or without an article container.
C16_PartialIffTextLeft ==
  ChainExhausted =>
    IF StrLen(TextLeft(Get(soup))) > 500
    THEN /\ Get(outcome).status = PARTIAL
         /\ Get(outcome).method_used = Some(METHOD3)
    ELSE /\ Get(outcome).status = FAILED
         /\ Get(outcome).error_message = Some(MSG_ALL_FAILED)

(***************************************************************************)
(* Properties of the chunker and of identifier normalization               *)
(***************************************************************************)
ChunksReturned == fn = "chunk_text_v2" /\ frame = None

InLoop == fn = "chunk_text_v2" /\ frame # None

WordsOf(text) == split(text)

\* C21: chunk_text_v2 terminates for every text, every chunk_size_words >= 1
\* and every overlap_words >= 0: each iteration of the loop that is not the
\* last moves the window forward, so that the loop reaches the window whose
\* end is the last word.
C21_LoopReachesLastWord ==
  [][(InLoop /\ frame' # None) => frame'.start > frame.start]_vars

\* the window of chunk k: its first word is word WindowStart + 1
WindowStart(k) == (k - 1) * (input.chunk_size_words - input.overlap_words)

\* C22: for a text of more than chunk_size_words words the windows start at
\* the word offsets 0, s, 2s, ... with s = chunk_size_words - overlap_words;
\* every window but the last is chunk_size_words words joined by single
\* spaces; the last ends at the last word and only it may be shorter.
C22_Windows ==
  (ChunksReturned /\ Len(WordsOf(input.text)) > input.chunk_size_words) =>
    /\ Len(output) >= 1
    /\ \A k \in 1..Len(output) :
         output[k] = join(<<" ">>, SubSeq(WordsOf(input.text), WindowStart(k) + 1,
                        Min(WindowStart(k) + input.chunk_size_words, Len(WordsOf(input.text)))))
    /\ \A k \in 1..(Len(output) - 1) :
         /\ Len(WordsOf(output[k])) = input.chunk_size_words
         /\ WindowStart(k) + input.chunk_size_words < Len(WordsOf(input.text))
    /\ WindowStart(Len(output)) + input.chunk_size_words >= Len(WordsOf(input.text))

\* five words in windows of two without overlap: three chunks, the last of
\* one word
C22_Witness ==
  /\ ChunksReturned
  /\ Len(WordsOf(input.text)) = 5
  /\ input.chunk_size_words = 2 /\ input.overlap_words = 0
  /\ Len(output) = 3
  /\ Len(WordsOf(output[3])) = 1

\* the words of the chunks in order, those of every chunk after the first
\* without the n words it repeats
RECURSIVE Unfold(_, _)
Unfold(chunks, n) ==
  IF chunks = <<>> THEN <<>>
  ELSE IF Len(chunks) = 1 THEN WordsOf(chunks[1])
  ELSE Unfold(SubSeq(chunks, 1, Len(chunks) - 1), n)
       \o SubSeq(WordsOf(chunks[Len(chunks)]), n + 1, Len(WordsOf(chunks[Len(chunks)])))

\* C23: every word position of the split text lies in a chunk, and the
\* chunks in order, the words repeated between neighbours dropped, give
\* back the word sequence of the text, no word lost or reordered.
C23_Coverage ==
  ChunksReturned =>
    /\ Unfold(output, input.overlap_words) = WordsOf(input.text)
    /\ \A p \in 1..Len(WordsOf(input.text)) :
         \E k \in 1..Len(output) :
           WindowStart(k) < p /\ p <= WindowStart(k) + Len(WordsOf(output[k]))

\* six words in three windows that overlap by one word
C23_Witness ==
  /\ ChunksReturned
  /\ Len(WordsOf(input.text)) = 6
  /\ input.overlap_words = 1
  /\ Len(output) = 3

\* C24: a text of at most chunk_size_words words, the empty text and a text
\* of exactly chunk_size_words words included, gives one chunk: the text
\* itself, unchanged, with its whitespace.
C24_ShortTextUnchanged ==
  (ChunksReturned /\ Len(WordsOf(input.text)) <= input.chunk_size_words) =>
    output = <<input.text>>

\* exactly chunk_size_words words with irregular whitespace around them
C24_Witness ==
  /\ ChunksReturned
  /\ Len(WordsOf(input.text)) = input.chunk_size_words
  /\ input.text # join(<<" ">>, WordsOf(input.text))
  /\ output = <<input.text>>

\* the identifier written differently: other letter case, whitespace around it
Rewritings(id) ==
  {id, lower(id), upper(id), <<" ">> \o id, id \o <<"\n">>, <<"\t">> \o lower(id) \o <<" ">>}

\* C25: for a non-empty identifier the normalized identifier is the trimmed,
\* upper-cased identifier, with the prefix PMC put before it exactly when
\* the trimmed identifier does not begin with PMC in any letter case;
\* identifiers that differ only in letter case or surrounding whitespace
\* normalize to the same value; normalizing a normalized identifier leaves
\* it unchanged.
C25_NormalizedIdentifier ==
  (pc # "idle" /\ arg # <<>>) =>
    /\ pmcid = IF startswith(upper(strip(arg)), PMC) THEN upper(strip(arg))
               ELSE PMC \o upper(strip(arg))
    /\ \A id \in Rewritings(arg) : normalize_pmcid(id) = pmcid
    /\ normalize_pmcid(pmcid) = pmcid

\* an identifier that has the prefix in lower case
C25_Witness ==
  /\ pc = "primary"
  /\ arg = <<"p", "m", "c", "7">>
  /\ pmcid = <<"P", "M", "C", "7">>

\* the last n elements of a sequence
LastN(xs, n) == SubSeq(xs, Len(xs) - n + 1, Len(xs))

\* C30: for 0 <= overlap_words < chunk_size_words and a text of more than
\* chunk_size_words words, two consecutive chunks share exactly
\* overlap_words words, the last overlap_words words of the one being the
\* first overlap_words words of the next, and every chunk after the first,
\* the last included, has a word no earlier chunk has: it is longer than
\* overlap_words words.
C30_ExactOverlap ==
  (/\ ChunksReturned
   /\ input.overlap_words < input.chunk_size_words
   /\ Len(WordsOf(input.text)) > input.chunk_size_words) =>
    \A k \in 1..(Len(output) - 1) :
      /\ Len(WordsOf(output[k])) >= input.overlap_words
      /\ Len(WordsOf(output[k + 1])) > input.overlap_words
      /\ LastN(WordsOf(output[k]), input.overlap_words)
           = SubSeq(WordsOf(output[k + 1]), 1, input.overlap_words)
      /\ WindowStart(k + 1) = WindowStart(k) + Len(WordsOf(output[k])) - input.overlap_words
      /\ WindowStart(k + 1) + Len(WordsOf(output[k + 1]))
           > WindowStart(k) + Len(WordsOf(output[k]))

\* windows of three words that overlap by two, the last chunk a full window
C30_Witness ==
  /\ ChunksReturned
  /\ input.chunk_size_words = 3 /\ input.overlap_words = 2
  /\ Len(WordsOf(input.text)) = 6
  /\ Len(output) = 4

(***************************************************************************)
(* Properties of the LLM calls and of the main loop                        *)
(***************************************************************************)
InLLM == fn \in {"chat_completion", "grok_function"}

LLMDone == InLLM /\ output # <<>>

\* C26: one call of chat_completion or grok_function with three attempts
\* issues at most 3 API requests; every request after the first follows a
\* 429 error and a sleep of backoff_factor ** attempt, respectively
\* 5 * 2 ** attempt, seconds; after the third 429 the call returns the
\* max-retries failure value; the call ends by returning the response text
\* or a failure value, and never raises.
C26_BoundedRetries ==
  InLLM =>
    /\ input.max_retries = 3 => frame.requests <= 3
    /\ frame.requests <= Len(frame.slept) + 1
    /\ \A k \in 1..Len(frame.slept) :
         frame.slept[k] = IF fn = "chat_completion" THEN Pow(input.backoff_factor, k - 1)
                          ELSE 5 * Pow(2, k - 1)
    /\ (LLMDone /\ Len(frame.slept) = input.max_retries) => output = MaxRetriesFailure(input)
    /\ LLMDone => output.kind = "returned"

\* the drivers that were created and on which quit() was not called yet
OpenDrivers == (1..frame.created) \ frame.quit

\* C27: in main at most one driver is open at any time, and when an
\* iteration starts and when the loop has ended quit() has been called on
\* every driver that was created, whatever path the iterations took
C27_DriverClosedPerPmid ==
  fn = "main" =>
    /\ Cardinality(OpenDrivers) <= 1
    /\ frame.at \in {"setup", "done"} => OpenDrivers = {}

C27_Witness ==
  /\ At("done")
  /\ frame.created = 2
  /\ frame.quit = {1, 2}
  /\ frame.fail_count >= 1
  /\ frame.success_count >= 1

RowsOf(rows, pmid) == Cardinality({i \in DOMAIN rows : rows[i] = pmid})

\* C28: when main has processed the list, every PMID has exactly one row
\* in literature_data.csv and exactly one row in sample_data.csv, and
\* success_count + fail_count is the number of PMIDs
C28_OneRowPerPmid ==
  At("done") =>
    /\ \A k \in DOMAIN input :
         /\ RowsOf(frame.literature, input[k]) = 1
         /\ RowsOf(frame.sample, input[k]) = 1
    /\ frame.success_count + frame.fail_count = Len(input)

\* C29: whenever main parses the responses, responses[2] is the answer to
\* prompt 3 and responses[3] the answer to prompt 4, and all four prompts
\* were answered
C29_ResponsesAligned ==
  (fn = "main" /\ frame.parsed # <<>>) =>
    /\ frame.parsed.sample = 3
    /\ frame.parsed.model = 4
    /\ frame.parsed.responses = <<1, 2, 3, 4>>

C29_Witness ==
  /\ At("finally")
  /\ frame.idx = 2
  /\ frame.parsed # <<>>
  /\ frame.parsed.responses = frame.responses
  /\ frame.success_count = 2

====
